---- MODULE Spec2Model ----
(***************************************************************************)
(* Model of the value-expression evaluator of dbload (package value):      *)
(* the function registry (RegisterFunction, UnregisterFunction,            *)
(* GetFunction, init) and the whitespace-grammar Eval of                   *)
(* src/pkg/value/value.go, lines 1-130.                                    *)
(*                                                                         *)
(* A Go string is a sequence of one-character strings. An interface{}      *)
(* value is a record [kind, str]; an error is a record [kind, fn, cause].  *)
(***************************************************************************)
EXTENDS Integers, Sequences, FiniteSets, TLC

(***************************************************************************)
(* Bounds of the model.                                                    *)
(***************************************************************************)
\* longest text put between (or next to) quote delimiters
MaxLitLen == 2
\* most stages of a generated pipe expression
MaxStages == 2
\* most explicit arguments of a generated call stage
MaxArgs == 2

(***************************************************************************)
(* Characters and words.                                                   *)
(***************************************************************************)
Quotes == {"'", "\""}
Whitespace == {" ", "\n"}
Pipe == "|"

hash == <<"h", "a", "s", "h">>
now == <<"n", "o", "w">>
uuid == <<"u", "u", "i", "d">>
double == <<"d", "o", "u", "b", "l", "e">>
skip == <<"s", "k", "i", "p">>
count == <<"c", "o", "u", "n", "t">>

Min(S) == CHOOSE x \in S : \A y \in S : x <= y
Max(S) == CHOOSE x \in S : \A y \in S : x >= y

(***************************************************************************)
(* Go standard library functions used by Eval.                             *)
(***************************************************************************)
RECURSIVE Split(_, _)
\* strings.Split(s, sep) for a one-character separator
Split(s, sep) ==
    LET hits == {k \in 1..Len(s) : s[k] = sep}
    IN  IF hits = {} THEN <<s>>
        ELSE <<SubSeq(s, 1, Min(hits) - 1)>>
                 \o Split(SubSeq(s, Min(hits) + 1, Len(s)), sep)

\* strings.TrimSpace(s)
TrimSpace(s) ==
    LET keep == {k \in 1..Len(s) : s[k] \notin Whitespace}
    IN  IF keep = {} THEN <<>> ELSE SubSeq(s, Min(keep), Max(keep))

RECURSIVE Fields(_)
\* strings.Fields(s): the maximal runs of non-whitespace characters
Fields(s) ==
    LET keep == {k \in 1..Len(s) : s[k] \notin Whitespace}
    IN  IF keep = {} THEN <<>>
        ELSE LET b == Min(keep)
                 ws == {k \in b..Len(s) : s[k] \in Whitespace}
                 e == IF ws = {} THEN Len(s) + 1 ELSE Min(ws)
             IN  <<SubSeq(s, b, e - 1)>> \o Fields(SubSeq(s, e, Len(s)))

\* mutant of quotePattern: the captured content is trimmed
quotePatternTrimmed(part) ==
    IF /\ Len(part) >= 2
       /\ part[1] \in Quotes
       /\ part[Len(part)] \in Quotes
       /\ \A k \in 2..(Len(part) - 1) : part[k] # "\n"
    THEN <<part, <<part[1]>>, TrimSpace(SubSeq(part, 2, Len(part) - 1)), <<part[Len(part)]>>>>
    ELSE <<>>

\* quotePattern.FindStringSubmatch(part) for ^(['"])(.*)(['"])$ :
\* <<>> is nil (no match); '.' does not match a newline.
quotePattern(part) ==
    IF /\ Len(part) >= 2
       /\ part[1] \in Quotes
       /\ part[Len(part)] \in Quotes
       /\ \A k \in 2..(Len(part) - 1) : part[k] # "\n"
    THEN <<part, <<part[1]>>, SubSeq(part, 2, Len(part) - 1), <<part[Len(part)]>>>>
    ELSE <<>>

(***************************************************************************)
(* Values and errors.                                                      *)
(***************************************************************************)
Nil == [kind |-> "nil", str |-> <<>>]
StringValue(s) == [kind |-> "string", str |-> s]
\* an interface{} value that holds an int
IntValue(n) == [kind |-> "int", n |-> n]

DigitSeq == <<"0", "1", "2", "3", "4", "5", "6", "7", "8", "9">>
RECURSIVE NatToStr(_)
NatToStr(n) ==
    IF n < 10 THEN <<DigitSeq[n + 1]>>
    ELSE Append(NatToStr(n \div 10), DigitSeq[(n % 10) + 1])
IntToStr(n) == IF n < 0 THEN <<"-">> \o NatToStr(0 - n) ELSE NatToStr(n)

\* mutant of Sprint: a value that is no string is passed on as the empty text
SprintStringsOnly(v) == IF v.kind = "string" THEN v.str ELSE <<>>

\* resultStr, ok := result.(string); if !ok { resultStr = fmt.Sprintf("%v", result) }
Sprint(v) == IF v.kind = "string" THEN v.str ELSE IntToStr(v.n)

NoCause == [msg |-> "nil", got |-> 0]
NoError == [kind |-> "nil", fn |-> <<>>, cause |-> NoCause]
\* mutant of ErrEmpty: the message of the unknown function
ErrEmptyAsUnsupported == [kind |-> "unsupported function", fn |-> <<>>, cause |-> NoCause]
ErrEmpty == [kind |-> "empty function call", fn |-> <<>>, cause |-> NoCause]
\* mutant of ErrUnsupported: the wrong message
ErrUnsupportedAsEmpty(name) == [kind |-> "empty function call", fn |-> name, cause |-> NoCause]
ErrUnsupported(name) == [kind |-> "unsupported function", fn |-> name, cause |-> NoCause]
ErrFunction(name, cause) == [kind |-> "function error", fn |-> name, cause |-> cause]

(***************************************************************************)
(* Handlers. sha256 is idealised as an injective function: the digest of s *)
(* is the text "#" followed by s, "#" being no character of any input.     *)
(* The clock and the random generator are inputs t and u of a call.        *)
(***************************************************************************)
Sha256Hex(s) == <<"#">> \o s

Times == {<<"T", "1">>, <<"T", "2">>}
Uuids == {<<"U", "1">>, <<"U", "2">>}

Ok(v) == [val |-> v, err |-> NoCause, panic |-> FALSE]
Fail(msg, n) == [val |-> Nil, err |-> [msg |-> msg, got |-> n], panic |-> FALSE]
Panic == [val |-> Nil, err |-> NoCause, panic |-> TRUE]

\* mutant of hashHandler: only the missing argument is rejected
hashHandlerAtLeastOne(a) ==
    IF Len(a) < 1
    THEN Fail("hash function requires exactly one argument", Len(a))
    ELSE Ok(StringValue(Sha256Hex(a[1])))

hashHandler(a) ==
    IF Len(a) # 1
    THEN Fail("hash function requires exactly one argument", Len(a))
    ELSE Ok(StringValue(Sha256Hex(a[1])))

nowHandler(a, t) ==
    IF Len(a) # 0
    THEN Fail("now function requires no arguments", Len(a))
    ELSE Ok(StringValue(t))

\* mutant of uuidHandler: one argument is taken as a seed
uuidHandlerSeeded(a, u) ==
    IF Len(a) > 1
    THEN Fail("uuid function requires no arguments", Len(a))
    ELSE IF Len(a) = 1 THEN Ok(StringValue(<<"U">> \o a[1]))
    ELSE Ok(StringValue(u))

uuidHandler(a, u) ==
    IF Len(a) # 0
    THEN Fail("uuid function requires no arguments", Len(a))
    ELSE Ok(StringValue(u))

\* the caller-supplied handler double(args) = args[0]+args[0];
\* indexing an empty slice panics
doubleHandler(a) ==
    IF Len(a) = 0 THEN Panic ELSE Ok(StringValue(a[1] \o a[1]))

\* the caller-supplied handler skip(args) = nil, nil
skipHandler(a) == Ok(Nil)

\* the caller-supplied handler count(args) = len(args), nil: its result is an int
countHandler(a) == Ok(IntValue(Len(a)))

Handlers == {"hash", "now", "uuid", "double", "skip", "count"}

\* handler(args): the call of a FunctionHandler value
CallHandler(h, a, t, u) ==
    CASE h = "hash" -> hashHandler(a)
      [] h = "now" -> nowHandler(a, t)
      [] h = "uuid" -> uuidHandler(a, u)
      [] h = "double" -> doubleHandler(a)
      [] h = "skip" -> skipHandler(a)
      [] h = "count" -> countHandler(a)

(***************************************************************************)
(* Inputs: the expressions handed to Eval and the arguments of the         *)
(* registry calls.                                                         *)
(***************************************************************************)
LitChars == {"a", " ", "|", "\n", "'", "\""}
LitBodies == UNION {[1..k -> LitChars] : k \in 0..MaxLitLen}
Delims == {<<>>, <<"'">>, <<"\"">>}
\* a body between two delimiters, each of them possibly missing
QuotedInputs == {q1 \o s \o q2 : q1 \in Delims, q2 \in Delims, s \in LitBodies}

RECURSIVE Join(_, _)
\* strings.Join(elems, sep)
Join(elems, sep) ==
    IF Len(elems) = 0 THEN <<>>
    ELSE IF Len(elems) = 1 THEN elems[1]
    ELSE elems[1] \o sep \o Join(Tail(elems), sep)

FnWords == {hash, now, uuid, double}
ArgLists == UNION {[1..k -> {<<"a">>}] : k \in 0..MaxArgs} \cup {<< <<"'", "b", "'">> >>}
CallStages == {Join(<<f>> \o al, <<" ">>) : f \in FnWords, al \in ArgLists}
\* the stages of the generated pipe expressions: calls, literals, an empty stage
PipeStages ==
    { hash, Join(<<hash, <<"a">>>>, <<" ">>), Join(<<hash, <<"'", "b", "'">>>>, <<" ">>),
      now, uuid, double,
      <<"'", "a", "'">>, <<" ", "\"", "a", "\"", " ">>, <<"'", "'">>, <<>> }
Pipelines == {Join(ss, <<Pipe>>) : ss \in UNION {[1..k -> PipeStages] : k \in 2..MaxStages}}

Inputs == QuotedInputs \cup CallStages \cup Pipelines

AllNames == {hash, now, uuid, double, skip, count}
RegNames == {hash, double}
RegHandlers == {"hash", "double"}

(***************************************************************************)
(* State.                                                                  *)
(***************************************************************************)
VARIABLES
    functionRegistry,   \* the map name -> handler
    pc,                 \* position of the goroutine: idle, loop, call, done, panic
    value,              \* Eval's parameter
    parts, i, result,   \* Eval's locals; i is the 0-based stage index
    fn, args, handler,  \* locals of the current call stage
    retVal, retErr,     \* what Eval returned
    invoked,            \* history: the handler calls of the current Eval
    lastOp,             \* history: the last registry write on each name
    lastCall            \* history: the last API call made, and the binding it found

\* the loader (cmd/dbload/main.go)
VARIABLES
    mainPc,             \* position of main: start, load, ordered, remaining, insert, done, exit, panic
    dryRun, dsn, orderStr, respectYamlOrder,   \* the flags and DATABASE_URL
    file,               \* the content of the YAML file: its tables and their order
    db,                 \* the database handle: nil, open, closed
    seedData, tableOrder,   \* main's locals
    orderIdx,           \* the index of the range loop over tableOrder
    visited,            \* the tables the range loop over seedData has been at
    table, rows, rowIdx, caller,   \* insertTable's parameters, its loop index, its call site
    stdout,             \* what has been printed
    execs               \* history: the calls of db.Exec

\* registryMutex and the goroutines that call the registry functions
VARIABLES
    readers, writers,   \* the goroutines that hold the read lock, the write lock
    gpc,                \* position of each caller goroutine
    gop                 \* the call each caller goroutine is making

evalVars == <<pc, value, parts, i, result, fn, args, handler, retVal, retErr, invoked>>
loadVars == <<mainPc, dryRun, dsn, orderStr, respectYamlOrder, file, db, seedData,
              tableOrder, orderIdx, visited, table, rows, rowIdx, caller, stdout, execs>>
lockVars == <<readers, writers, gpc, gop>>
\* what a step of the sequential evaluator leaves alone
extVars == <<loadVars, lockVars>>
vars == <<functionRegistry, pc, value, parts, i, result, fn, args, handler,
          retVal, retErr, invoked, lastOp, lastCall, loadVars, lockVars>>

(***************************************************************************)
(* The registry.                                                           *)
(***************************************************************************)
EmptyMap == [x \in {} |-> "nil"]
\* mutant of MapSet: a key that is present keeps its value
MapSetIfAbsent(m, k, v) ==
    [x \in DOMAIN m \cup {k} |-> IF x \in DOMAIN m THEN m[x] ELSE v]
\* m[k] = v
MapSet(m, k, v) == [x \in DOMAIN m \cup {k} |-> IF x = k THEN v ELSE m[x]]
\* mutant of MapDelete: nothing is removed
MapDeleteNothing(m, k) == m
\* delete(m, k)
MapDelete(m, k) == [x \in DOMAIN m \ {k} |-> m[x]]

\* the registry after init() has registered hash, now and uuid
init == MapSet(MapSet(MapSet(EmptyMap, hash, "hash"), now, "now"), uuid, "uuid")

\* handler, exists := functionRegistry[name]
GetFunction(name) ==
    IF name \in DOMAIN functionRegistry
    THEN [handler |-> functionRegistry[name], exists |-> TRUE]
    ELSE [handler |-> "nil", exists |-> FALSE]

RegisterFunction(name, h) ==
    /\ functionRegistry' = MapSet(functionRegistry, name, h)
    /\ lastOp' = [lastOp EXCEPT ![name] = [op |-> "Register", handler |-> h]]
    /\ lastCall' = [op |-> "RegisterFunction", name |-> name, handler |-> h,
                    prev |-> GetFunction(name).handler]
    /\ UNCHANGED evalVars

\* mutant of UnregisterFunction: the whole map is replaced by an empty one
UnregisterFunctionClears(name) ==
    /\ functionRegistry' = EmptyMap
    /\ lastOp' = [lastOp EXCEPT ![name] = [op |-> "Unregister", handler |-> "nil"]]
    /\ lastCall' = [op |-> "UnregisterFunction", name |-> name, handler |-> "nil",
                    prev |-> GetFunction(name).handler]
    /\ UNCHANGED evalVars

UnregisterFunction(name) ==
    /\ functionRegistry' = MapDelete(functionRegistry, name)
    /\ lastOp' = [lastOp EXCEPT ![name] = [op |-> "Unregister", handler |-> "nil"]]
    /\ lastCall' = [op |-> "UnregisterFunction", name |-> name, handler |-> "nil",
                    prev |-> GetFunction(name).handler]
    /\ UNCHANGED evalVars

(***************************************************************************)
(* Eval, one step per stage classification, lookup and handler call.       *)
(***************************************************************************)
\* the trimmed text of the stage the loop is at
Part == TrimSpace(parts[i + 1])

\* mutant of IsLiteral: the two quote characters are not compared
IsLiteralAnyQuotes(part) ==
    LET matches == quotePattern(part)
    IN  matches # <<>> /\ Len(matches) = 4

\* mutant of IsLiteral: a quoted text whose first word is a registered name
\* is left to the call parsing
IsLiteralUnlessCall(part) ==
    LET matches == quotePattern(part)
    IN  /\ matches # <<>> /\ Len(matches) = 4 /\ matches[2] = matches[4]
        /\ ~(Fields(matches[3]) # <<>> /\ GetFunction(Fields(matches[3])[1]).exists)

\* matches != nil && len(matches) == 4 && matches[1] == matches[3]
IsLiteral(part) ==
    LET matches == quotePattern(part)
    IN  matches # <<>> /\ Len(matches) = 4 /\ matches[2] = matches[4]

\* mutant of StageArgs: the running value is not passed on
StageArgsExplicitOnly(tokens, idx, res) == Tail(tokens)

\* mutant of StageArgs: an empty running value is not passed on
StageArgsSkipsEmpty(tokens, idx, res) ==
    IF idx > 0 /\ res # Nil /\ Sprint(res) # <<>>
    THEN Append(Tail(tokens), Sprint(res)) ELSE Tail(tokens)

\* the argument list of a call stage: the explicit tokens, then the running value
StageArgs(tokens, idx, res) ==
    IF idx > 0 /\ res # Nil THEN Append(Tail(tokens), Sprint(res)) ELSE Tail(tokens)

\* return v, e
Return(v, e) ==
    /\ retVal' = v
    /\ retErr' = e
    /\ pc' = "done"

EvalStart(v) ==
    /\ pc = "idle"
    /\ value' = v
    /\ parts' = Split(v, Pipe)
    /\ i' = 0
    /\ result' = Nil
    /\ pc' = "loop"
    /\ invoked' = <<>>
    /\ lastCall' = [op |-> "Eval", name |-> <<>>, handler |-> "nil", prev |-> "nil"]
    /\ UNCHANGED <<functionRegistry, fn, args, handler, retVal, retErr, lastOp>>

\* mutant of EvalLiteral: a literal does not replace a running value
EvalLiteralKeepsValue ==
    /\ pc = "loop" /\ i < Len(parts)
    /\ IsLiteral(Part)
    /\ result' = IF result = Nil THEN StringValue(quotePattern(Part)[3]) ELSE result
    /\ i' = i + 1
    /\ UNCHANGED <<functionRegistry, pc, value, parts, fn, args, handler,
                   retVal, retErr, invoked, lastOp, lastCall>>
    /\ UNCHANGED extVars

EvalLiteral ==
    /\ pc = "loop" /\ i < Len(parts)
    /\ IsLiteral(Part)
    /\ result' = StringValue(quotePattern(Part)[3])
    /\ i' = i + 1
    /\ UNCHANGED <<functionRegistry, pc, value, parts, fn, args, handler,
                   retVal, retErr, invoked, lastOp, lastCall>>
    /\ UNCHANGED extVars

\* mutant of EvalEmpty: the running value is returned with the error
EvalEmptyPartial ==
    /\ pc = "loop" /\ i < Len(parts)
    /\ ~IsLiteral(Part)
    /\ Len(Fields(Part)) = 0
    /\ Return(result, ErrEmpty)
    /\ UNCHANGED <<functionRegistry, value, parts, i, result, fn, args, handler,
                   invoked, lastOp, lastCall>>
    /\ UNCHANGED extVars

EvalEmpty ==
    /\ pc = "loop" /\ i < Len(parts)
    /\ ~IsLiteral(Part)
    /\ Len(Fields(Part)) = 0
    /\ Return(Nil, ErrEmpty)
    /\ UNCHANGED <<functionRegistry, value, parts, i, result, fn, args, handler,
                   invoked, lastOp, lastCall>>
    /\ UNCHANGED extVars

EvalLookup ==
    /\ pc = "loop" /\ i < Len(parts)
    /\ ~IsLiteral(Part)
    /\ Len(Fields(Part)) # 0
    /\ LET tokens == Fields(Part)
       IN  /\ fn' = tokens[1]
           /\ args' = StageArgs(tokens, i, result)
           /\ GetFunction(tokens[1]).exists
           /\ handler' = GetFunction(tokens[1]).handler
    /\ pc' = "call"
    /\ UNCHANGED <<functionRegistry, value, parts, i, result, retVal, retErr,
                   invoked, lastOp, lastCall>>
    /\ UNCHANGED extVars

\* mutant of EvalUnsupported: the unknown stage is skipped
EvalUnsupportedSkips ==
    /\ pc = "loop" /\ i < Len(parts)
    /\ ~IsLiteral(Part)
    /\ Len(Fields(Part)) # 0
    /\ LET tokens == Fields(Part)
       IN  /\ fn' = tokens[1]
           /\ args' = StageArgs(tokens, i, result)
           /\ ~GetFunction(tokens[1]).exists
    /\ i' = i + 1
    /\ UNCHANGED <<functionRegistry, pc, value, parts, result, handler, retVal, retErr,
                   invoked, lastOp, lastCall>>
    /\ UNCHANGED extVars

EvalUnsupported ==
    /\ pc = "loop" /\ i < Len(parts)
    /\ ~IsLiteral(Part)
    /\ Len(Fields(Part)) # 0
    /\ LET tokens == Fields(Part)
       IN  /\ fn' = tokens[1]
           /\ args' = StageArgs(tokens, i, result)
           /\ ~GetFunction(tokens[1]).exists
           /\ Return(Nil, ErrUnsupported(tokens[1]))
    /\ UNCHANGED <<functionRegistry, value, parts, i, result, handler,
                   invoked, lastOp, lastCall>>
    /\ UNCHANGED extVars

\* mutant of EvalCall: the binding is looked at again before the call, and
\* a handler that is no longer the registered one is not called
EvalCallRechecks ==
    /\ pc = "call"
    /\ IF GetFunction(fn) # [handler |-> handler, exists |-> TRUE]
       THEN /\ Return(Nil, ErrUnsupported(fn))
            /\ UNCHANGED <<i, result, invoked>>
       ELSE /\ \E t \in Times, u \in Uuids :
                 LET r == CallHandler(handler, args, t, u)
                 IN  /\ result' = r.val
                     /\ IF r.panic
                        THEN pc' = "panic" /\ UNCHANGED <<i, retVal, retErr>>
                        ELSE IF r.err # NoCause
                        THEN Return(Nil, ErrFunction(fn, r.err)) /\ UNCHANGED i
                        ELSE pc' = "loop" /\ i' = i + 1 /\ UNCHANGED <<retVal, retErr>>
            /\ invoked' = Append(invoked, [fn |-> fn, handler |-> handler, args |-> args])
    /\ UNCHANGED <<functionRegistry, value, parts, fn, args, handler, lastOp, lastCall>>
    /\ UNCHANGED extVars

EvalCall ==
    /\ pc = "call"
    /\ \E t \in Times, u \in Uuids :
         LET r == CallHandler(handler, args, t, u)
         IN  /\ result' = r.val
             /\ IF r.panic
                THEN pc' = "panic" /\ UNCHANGED <<i, retVal, retErr>>
                ELSE IF r.err # NoCause
                THEN Return(Nil, ErrFunction(fn, r.err)) /\ UNCHANGED i
                ELSE pc' = "loop" /\ i' = i + 1 /\ UNCHANGED <<retVal, retErr>>
    /\ invoked' = Append(invoked, [fn |-> fn, handler |-> handler, args |-> args])
    /\ UNCHANGED <<functionRegistry, value, parts, fn, args, handler, lastOp, lastCall>>
    /\ UNCHANGED extVars

\* mutant of EvalReturn: the last running value is returned as a string
EvalReturnStringified ==
    /\ pc = "loop" /\ i = Len(parts)
    /\ Return(IF result = Nil THEN Nil ELSE StringValue(Sprint(result)), NoError)
    /\ UNCHANGED <<functionRegistry, value, parts, i, result, fn, args, handler,
                   invoked, lastOp, lastCall>>
    /\ UNCHANGED extVars

EvalReturn ==
    /\ pc = "loop" /\ i = Len(parts)
    /\ Return(result, NoError)
    /\ UNCHANGED <<functionRegistry, value, parts, i, result, fn, args, handler,
                   invoked, lastOp, lastCall>>
    /\ UNCHANGED extVars

\* the caller has taken Eval's return values; the frame is gone
EvalCaller ==
    /\ pc = "done"
    /\ pc' = "idle"
    /\ value' = <<>> /\ parts' = <<>> /\ i' = 0 /\ result' = Nil
    /\ fn' = <<>> /\ args' = <<>> /\ handler' = "nil"
    /\ retVal' = Nil /\ retErr' = NoError
    /\ invoked' = <<>>
    /\ UNCHANGED <<functionRegistry, lastOp, lastCall>>
    /\ UNCHANGED extVars

\* a single goroutine: registry calls happen between two Evals
Register == pc = "idle" /\ \E name \in RegNames, h \in RegHandlers : RegisterFunction(name, h) /\ UNCHANGED extVars
Unregister == pc = "idle" /\ \E name \in RegNames : UnregisterFunction(name) /\ UNCHANGED extVars
Evaluate == (\E v \in Inputs : EvalStart(v)) /\ UNCHANGED extVars

\* the goroutines, besides the one that calls Eval, that call the registry
Goroutines == {"g1", "g2"}
\* the goroutine that calls Eval
Eval == "eval"
\* the goroutines that may be in a registry call
Callers == Goroutines \cup {Eval}
NoCall == [op |-> "none", name |-> <<>>, handler |-> "nil"]
\* no goroutine is in a registry call, the lock is free
NoCallers ==
    /\ readers = {} /\ writers = {}
    /\ gpc = [g \in Callers |-> "idle"]
    /\ gop = [g \in Callers |-> NoCall]

NoFile == [data |-> EmptyMap, order |-> <<>>]
\* main is not running
NoLoader ==
    /\ mainPc = "none"
    /\ dryRun = FALSE /\ dsn = <<>> /\ orderStr = <<>> /\ respectYamlOrder = TRUE
    /\ file = NoFile
    /\ db = "nil"
    /\ seedData = EmptyMap /\ tableOrder = <<>>
    /\ orderIdx = 0 /\ visited = {}
    /\ table = <<>> /\ rows = <<>> /\ rowIdx = 0 /\ caller = "none"
    /\ stdout = <<>> /\ execs = <<>>

Init ==
    /\ NoLoader /\ NoCallers
    /\ functionRegistry = init
    /\ pc = "idle"
    /\ value = <<>> /\ parts = <<>> /\ i = 0 /\ result = Nil
    /\ fn = <<>> /\ args = <<>> /\ handler = "nil"
    /\ retVal = Nil /\ retErr = NoError
    /\ invoked = <<>>
    /\ lastOp = [n \in AllNames |->
                   IF n \in DOMAIN init
                   THEN [op |-> "Register", handler |-> init[n]]
                   ELSE [op |-> "none", handler |-> "nil"]]
    /\ lastCall = [op |-> "init", name |-> <<>>, handler |-> "nil", prev |-> "nil"]

Next ==
    \/ Register
    \/ Unregister
    \/ Evaluate
    \/ EvalLiteral
    \/ EvalEmpty
    \/ EvalLookup
    \/ EvalUnsupported
    \/ EvalCall
    \/ EvalReturn
    \/ EvalCaller

Spec == Init /\ [][Next]_vars

(***************************************************************************)
(* The parenthesized grammar: Eval with stages of the form                 *)
(* function(arg1, arg2, ...), and the built-ins and custom functions that  *)
(* go with it.                                                             *)
(***************************************************************************)
bcrypt == <<"b", "c", "r", "y", "p", "t">>
upper == <<"u", "p", "p", "e", "r">>
future == <<"f", "u", "t", "u", "r", "e">>

LowerSeq == <<"a", "b", "c", "d", "e", "f", "g", "h", "i", "j", "k", "l", "m",
              "n", "o", "p", "q", "r", "s", "t", "u", "v", "w", "x", "y", "z">>
UpperSeq == <<"A", "B", "C", "D", "E", "F", "G", "H", "I", "J", "K", "L", "M",
              "N", "O", "P", "Q", "R", "S", "T", "U", "V", "W", "X", "Y", "Z">>
Elems(s) == {s[k] : k \in 1..Len(s)}
\* the characters \w of a regular expression
WordChars == Elems(LowerSeq) \cup Elems(UpperSeq) \cup Elems(DigitSeq) \cup {"_"}

\* strings.ToUpper(s), for ASCII texts
ToUpper(s) ==
    [k \in 1..Len(s) |->
        IF s[k] \in Elems(LowerSeq)
        THEN UpperSeq[CHOOSE j \in 1..Len(LowerSeq) : LowerSeq[j] = s[k]]
        ELSE s[k]]

DigitVal(c) == (CHOOSE j \in 1..Len(DigitSeq) : DigitSeq[j] = c) - 1
RECURSIVE DigitsVal(_)
DigitsVal(ds) ==
    IF Len(ds) = 0 THEN 0
    ELSE 10 * DigitsVal(SubSeq(ds, 1, Len(ds) - 1)) + DigitVal(ds[Len(ds)])

\* strconv.Atoi(s): an optional sign, then decimal digits only; texts too
\* long for an int are beyond the generated arguments
Atoi(s) ==
    LET signed == Len(s) >= 1 /\ s[1] \in {"+", "-"}
        ds == IF signed THEN Tail(s) ELSE s
        ok == Len(ds) >= 1 /\ \A k \in 1..Len(ds) : ds[k] \in Elems(DigitSeq)
    IN  [ok |-> ok,
         n |-> IF ~ok THEN 0
               ELSE IF signed /\ s[1] = "-" THEN 0 - DigitsVal(ds) ELSE DigitsVal(ds)]

\* fmt.Sscanf(s, "%d", &days): leading spaces are skipped, then an optional
\* sign and at least one digit are read; what follows is not looked at
Sscanf(s) ==
    LET nb == {k \in 1..Len(s) : s[k] # " "}
        t == IF nb = {} THEN <<>> ELSE SubSeq(s, Min(nb), Len(s))
        signed == Len(t) >= 1 /\ t[1] \in {"+", "-"}
        u == IF signed THEN Tail(t) ELSE t
        nd == {k \in 1..Len(u) : u[k] \notin Elems(DigitSeq)}
        ds == IF nd = {} THEN u ELSE SubSeq(u, 1, Min(nd) - 1)
    IN  [ok |-> Len(ds) >= 1,
         n |-> IF Len(ds) = 0 THEN 0
               ELSE IF signed /\ t[1] = "-" THEN 0 - DigitsVal(ds) ELSE DigitsVal(ds)]


\* bcrypt.MinCost, bcrypt.MaxCost, bcrypt.DefaultCost
MinCost == 4
MaxCost == 31
DefaultCost == 10

Salts == {<<"S", "1">>, <<"S", "2">>}
\* bcrypt.GenerateFromPassword idealised: the text of the hash holds the
\* version, the two-digit cost, the random salt and the password it was made from
GenerateFromPassword(password, cost, salt) ==
    <<"$", "2", "a", "$">> \o (IF cost < 10 THEN <<"0">> ELSE <<>>) \o NatToStr(cost)
        \o <<"$">> \o salt \o <<"$">> \o password

\* mutant of bcryptHandler: the cost is not checked against the range
bcryptHandlerAnyCost(a, salt, fail) ==
    IF Len(a) < 1 \/ Len(a) > 2
    THEN Fail("bcrypt function requires 1 or 2 arguments (password, [cost])", Len(a))
    ELSE IF Len(a) = 2 /\ ~Atoi(a[2]).ok
    THEN Fail("bcrypt cost must be a number", 0)
    ELSE LET cost == IF Len(a) = 2 THEN Atoi(a[2]).n ELSE DefaultCost
         IN  IF fail \/ cost < 0
             THEN Fail("bcrypt error", cost)
             ELSE Ok(StringValue(GenerateFromPassword(a[1], cost, salt)))

\* the handler of bcrypt; fail says that GenerateFromPassword returns an error
bcryptHandler(a, salt, fail) ==
    IF Len(a) < 1 \/ Len(a) > 2
    THEN Fail("bcrypt function requires 1 or 2 arguments (password, [cost])", Len(a))
    ELSE IF Len(a) = 2 /\ ~Atoi(a[2]).ok
    THEN Fail("bcrypt cost must be a number", 0)
    ELSE LET cost == IF Len(a) = 2 THEN Atoi(a[2]).n ELSE DefaultCost
         IN  IF Len(a) = 2 /\ (cost < MinCost \/ cost > MaxCost)
             THEN Fail("bcrypt cost must be between", cost)
             ELSE IF fail
             THEN Fail("bcrypt error", cost)
             ELSE Ok(StringValue(GenerateFromPassword(a[1], cost, salt)))

\* the handler of upper
upperHandler(a) ==
    IF Len(a) # 1
    THEN Fail("upper function requires exactly one argument", Len(a))
    ELSE Ok(StringValue(ToUpper(a[1])))

\* the handler of future; AddDate idealised: the text of the result holds
\* the time of the call and the number of days added
futureHandler(a, t) ==
    IF Len(a) # 1
    THEN Fail("future function requires exactly one argument (days)", Len(a))
    ELSE IF ~Sscanf(a[1]).ok
    THEN Fail("future function requires a number", 0)
    ELSE Ok(StringValue(t \o <<"+">> \o IntToStr(Sscanf(a[1]).n)))

\* what one handler call finds in its environment: the clock, the random
\* UUID, the random salt and whether the hashing fails. A handler reads the
\* clock or one of the random sources, never two of them, so they are
\* drawn together.
CallEnvs ==
    {[t |-> <<"T", d>>, u |-> <<"U", d>>, salt |-> <<"S", d>>, fail |-> b] :
        d \in {"1", "2"}, b \in BOOLEAN}

\* handler(args) with the handlers of the parenthesized grammar
CallHandler2(h, a, e) ==
    CASE h = "bcrypt" -> bcryptHandler(a, e.salt, e.fail)
      [] h = "upper" -> upperHandler(a)
      [] h = "future" -> futureHandler(a, e.t)
      [] OTHER -> CallHandler(h, a, e.t, e.u)

\* mutant of init2: bcrypt is not registered
init2WithoutBcrypt == init

\* init() of the parenthesized grammar: hash, bcrypt, now, uuid
init2 == MapSet(init, bcrypt, "bcrypt")

\* mutant of functionCallPattern: the closing parenthesis may be missing
functionCallPatternUnclosed(part) ==
    LET opens == {k \in 1..Len(part) : part[k] = "("}
        p == IF opens = {} THEN 0 ELSE Min(opens)
        e == IF part # <<>> /\ part[Len(part)] = ")" THEN Len(part) - 1 ELSE Len(part)
    IN  IF /\ p > 1
           /\ \A k \in 1..(p - 1) : part[k] \in WordChars
           /\ \A k \in (p + 1)..e : part[k] # "\n"
        THEN <<part, SubSeq(part, 1, p - 1), SubSeq(part, p + 1, e)>>
        ELSE <<>>

\* functionCallPattern.FindStringSubmatch(part) for ^(\w+)\((.*)\)$ :
\* <<>> is nil (no match); the name ends at the first parenthesis, '.' does
\* not match a newline.
functionCallPattern(part) ==
    LET opens == {k \in 1..Len(part) : part[k] = "("}
        p == IF opens = {} THEN 0 ELSE Min(opens)
    IN  IF /\ p > 1
           /\ \A k \in 1..(p - 1) : part[k] \in WordChars
           /\ Len(part) > p
           /\ part[Len(part)] = ")"
           /\ \A k \in (p + 1)..(Len(part) - 1) : part[k] # "\n"
        THEN <<part, SubSeq(part, 1, p - 1), SubSeq(part, p + 1, Len(part) - 1)>>
        ELSE <<>>

\* mutant of StripQuotes: the argument is left as it is written
StripQuotesNever(a) == a

\* one argument loses the pair of identical quotes around it
StripQuotes(a) ==
    IF /\ Len(a) > 1
       /\ \/ a[1] = "\"" /\ a[Len(a)] = "\""
          \/ a[1] = "'" /\ a[Len(a)] = "'"
    THEN SubSeq(a, 2, Len(a) - 1)
    ELSE a

\* mutant of ParenArgs: the running value is not passed on
ParenArgsExplicitOnly(argsStr, idx, res) ==
    IF argsStr = <<>> THEN <<>>
    ELSE LET raw == Split(argsStr, ",")
         IN  [k \in 1..Len(raw) |-> StripQuotes(TrimSpace(raw[k]))]

\* the argument list of a call stage: the text between the parentheses
\* split at the commas, each piece trimmed and unquoted, then the running value
ParenArgs(argsStr, idx, res) ==
    LET explicit == IF argsStr = <<>> THEN <<>>
                    ELSE LET raw == Split(argsStr, ",")
                         IN  [k \in 1..Len(raw) |-> StripQuotes(TrimSpace(raw[k]))]
    IN  IF idx > 0 /\ res # Nil THEN Append(explicit, Sprint(res)) ELSE explicit

RECURSIVE EvalLoop(_, _, _, _, _)
\* the loop of Eval from stage idx (0-based) on, with running value res;
\* calls is the history of the handler calls, es[k] the environment of the
\* handler call of stage k
EvalLoop(ps, idx, res, calls, es) ==
    IF idx = Len(ps)
    THEN [val |-> res, err |-> NoError, i |-> idx, calls |-> calls, panic |-> FALSE]
    ELSE LET part == TrimSpace(ps[idx + 1])
             matches == functionCallPattern(part)
         IN  IF matches = <<>> \/ Len(matches) # 3
             THEN EvalLoop(ps, idx + 1, StringValue(part), calls, es)
             ELSE LET f == matches[2]
                      a == ParenArgs(matches[3], idx, res)
                      g == GetFunction(f)
                      r == CallHandler2(g.handler, a, es[idx + 1])
                      cs == Append(calls, [fn |-> f, handler |-> g.handler, args |-> a])
                  IN  IF ~g.exists
                      THEN [val |-> Nil, err |-> ErrUnsupported(f), i |-> idx,
                            calls |-> calls, panic |-> FALSE]
                      ELSE IF r.panic
                      THEN [val |-> Nil, err |-> NoError, i |-> idx,
                            calls |-> cs, panic |-> TRUE]
                      ELSE IF r.err # NoCause
                      THEN [val |-> Nil, err |-> ErrFunction(f, r.err), i |-> idx,
                            calls |-> cs, panic |-> FALSE]
                      ELSE EvalLoop(ps, idx + 1, r.val, cs, es)

\* Eval(v) of the parenthesized grammar
EvalParen(v, es) == EvalLoop(Split(v, Pipe), 0, Nil, <<>>, es)

\* the environments of the handler calls of one Eval(v); a stage that is
\* no call reads none, so it gets a fixed one
EvalEnvs(v) ==
    LET ps == Split(v, Pipe)
        e0 == CHOOSE e \in CallEnvs : TRUE
    IN  {es \in [1..Len(ps) -> CallEnvs] :
            \A k \in 1..Len(ps) :
                functionCallPattern(TrimSpace(ps[k])) = <<>> => es[k] = e0}

(***************************************************************************)
(* The expressions handed to the Eval of the parenthesized grammar.        *)
(***************************************************************************)
ParenChars == {"a", " ", "\n", "(", ")", ",", "'"}
ParenBodies == UNION {[1..k -> ParenChars] : k \in 0..MaxLitLen}
OneArgFns == {hash, upper}
\* v|f()
PipeForm(v, f) == v \o <<Pipe>> \o f \o <<"(", ")">>
\* f(v)
CallForm(f, v) == f \o <<"(">> \o v \o <<")">>
CostTexts ==
    { <<"3">>, <<"4">>, <<"1", "0">>, <<"1", "2">>, <<"3", "1">>, <<"3", "2">>,
      <<"0", "4">>, <<"-", "4">>, <<"+", "4">>, <<"x">>, <<"4", "x">>, <<"'", "5", "'">>,
      <<" ">>, <<"-">> }
BcryptArgLists == UNION {[1..k -> {<<"a">>, <<"1", "2">>}] : k \in 0..(MaxArgs + 1)}
BcryptInputs ==
    {CallForm(bcrypt, Join(al, <<",", " ">>)) : al \in BcryptArgLists}
        \cup {CallForm(bcrypt, <<"a", ",">> \o c) : c \in CostTexts}
        \cup {c \o <<Pipe>> \o CallForm(bcrypt, <<"a">>) : c \in CostTexts}
        \cup {PipeForm(<<"a">>, bcrypt), PipeForm(<<>>, bcrypt)}
ParenStages ==
    { CallForm(hash, <<"a">>), CallForm(upper, <<>>), CallForm(now, <<>>),
      CallForm(uuid, <<>>), CallForm(bcrypt, <<>>), CallForm(future, <<"1">>),
      CallForm(double, <<>>), <<"a">>, <<"'", "a", "'">>, <<>> }
ParenPipelines ==
    {Join(ss, <<Pipe>>) : ss \in UNION {[1..k -> ParenStages] : k \in 1..MaxStages}}
ParenInputs ==
    {PipeForm(v, f) : v \in ParenBodies, f \in OneArgFns}
        \cup {CallForm(f, v) : v \in ParenBodies, f \in OneArgFns}
        \cup {CallForm(hash, <<q>> \o v \o <<q>>) : v \in ParenBodies, q \in Quotes}
        \cup {CallForm(upper, CallForm(now, <<>>)), CallForm(hash, <<"a", Pipe, "a">>),
              CallForm(hash, <<"'", "a", Pipe, "a", "'">>),
              CallForm(hash, <<"\"", "a", Pipe, "a", "\"">>)}
        \cup BcryptInputs \cup ParenPipelines
        \cup ParenBodies \cup {hash \o <<"(", "a">>, <<" ">> \o hash \o <<"(", "a">>}

ParenNames == {hash, bcrypt, now, uuid, upper, future, double}

(***************************************************************************)
(* The parenthesized grammar as a state machine: the program registers its *)
(* custom functions, a caller unregisters one of them, Eval is called.     *)
(***************************************************************************)
\* registerCustomFunctions(): future, then upper
registerCustomFunctions ==
    /\ functionRegistry' = MapSet(MapSet(functionRegistry, future, "future"), upper, "upper")
    /\ lastOp' = [lastOp EXCEPT ![future] = [op |-> "Register", handler |-> "future"],
                                ![upper] = [op |-> "Register", handler |-> "upper"]]
    /\ lastCall' = [op |-> "RegisterFunction", name |-> upper, handler |-> "upper",
                    prev |-> GetFunction(upper).handler]

\* the program registers its custom functions before it calls Eval
RegisterCustom ==
    /\ pc = "idle"
    /\ registerCustomFunctions
    /\ UNCHANGED evalVars
    /\ UNCHANGED extVars

UnregisterCustom ==
    /\ pc = "idle"
    /\ UnregisterFunction(upper)
    /\ UNCHANGED extVars

\* one call of Eval, from the call to the return
EvaluateParen ==
    /\ pc = "idle"
    /\ \E v \in ParenInputs : \E es \in EvalEnvs(v) :
          LET r == EvalParen(v, es)
          IN  /\ value' = v
              /\ parts' = Split(v, Pipe)
              /\ i' = r.i
              /\ invoked' = r.calls
              /\ retVal' = r.val
              /\ retErr' = r.err
              /\ pc' = IF r.panic THEN "panic" ELSE "done"
    /\ UNCHANGED <<functionRegistry, result, fn, args, handler, lastOp, lastCall>>
    /\ UNCHANGED extVars

InitParen ==
    /\ NoLoader /\ NoCallers
    /\ functionRegistry = init2
    /\ pc = "idle"
    /\ value = <<>> /\ parts = <<>> /\ i = 0 /\ result = Nil
    /\ fn = <<>> /\ args = <<>> /\ handler = "nil"
    /\ retVal = Nil /\ retErr = NoError
    /\ invoked = <<>>
    /\ lastOp = [n \in ParenNames |->
                   IF n \in DOMAIN init2
                   THEN [op |-> "Register", handler |-> init2[n]]
                   ELSE [op |-> "none", handler |-> "nil"]]
    /\ lastCall = [op |-> "init", name |-> <<>>, handler |-> "nil", prev |-> "nil"]

NextParen ==
    \/ RegisterCustom
    \/ UnregisterCustom
    \/ EvaluateParen
    \/ EvalCaller

SpecParen == InitParen /\ [][NextParen]_vars

(***************************************************************************)
(* The loader: main and insertTable of cmd/dbload/main.go. A table name is *)
(* a text, a row maps column names to cells, a cell is a string or a       *)
(* number of the YAML file.                                                *)
(***************************************************************************)
\* most rows of a table of a generated file
MaxRows == 2

users == <<"u">>
posts == <<"p">>
IntCell == [kind |-> "int", str |-> <<"1">>]

\* strings.Contains(s, c) for a one-character c
Contains(s, c) == \E k \in 1..Len(s) : s[k] = c

RowKinds ==
    { [id |-> IntCell, name |-> StringValue(<<"a">>)],
      [name |-> StringValue(PipeForm(<<"a">>, upper))],
      [pw |-> StringValue(CallForm(bcrypt, <<"a">>))],
      [name |-> StringValue(CallForm(<<"x">>, <<>>))],
      [note |-> StringValue(<<"(", "a", ")">>)],
      [name |-> StringValue(<<" ", "a">>)] }
SeedRows == UNION {[1..k -> RowKinds] : k \in 0..MaxRows}
ShortRows ==
    { <<>>, <<[name |-> StringValue(PipeForm(<<"a">>, upper))]>>,
      <<[name |-> StringValue(CallForm(<<"x">>, <<>>))]>> }
\* the files: one table, two tables in either order, a file that cannot be read
SeedFiles ==
    {[data |-> MapSet(EmptyMap, users, rs), order |-> <<users>>, err |-> FALSE] :
        rs \in SeedRows}
    \cup {[data |-> MapSet(MapSet(EmptyMap, users, r1), posts, r2), order |-> o, err |-> FALSE] :
            r1 \in ShortRows, r2 \in ShortRows, o \in {<<users, posts>>, <<posts, users>>}}
    \cup {[data |-> EmptyMap, order |-> <<>>, err |-> TRUE]}
\* the values of -order
OrderStrs ==
    { <<>>, <<"p", ",", "u">>, <<"p", ",", " ", "u">>, <<"p">>, <<"x", ",", "u">>,
      <<"u", ",", "u">> }
Dsns == {<<>>, <<"d">>}

\* the orders in which a range loop may visit the keys S of a map
Perms(S) == {f \in [1..Cardinality(S) -> S] : \A j, k \in 1..Cardinality(S) : f[j] = f[k] => j = k}

RECURSIVE RowEnvs(_, _)
\* the environments of the Eval calls of one row, column by column
RowEnvs(row, cols) ==
    IF cols = {} THEN {EmptyMap}
    ELSE LET c == CHOOSE x \in cols : TRUE
         IN  {MapSet(f, c, es) :
                 f \in RowEnvs(row, cols \ {c}),
                 es \in IF row[c].kind = "string" THEN EvalEnvs(row[c].str) ELSE {<<>>}}

\* mutant of NeedsEval: every string cell is evaluated
NeedsEvalAnyString(v) == v.kind = "string"

\* isFunctionCall || hasPipe
NeedsEval(v) ==
    /\ v.kind = "string"
    /\ \/ Contains(v.str, "(") /\ Contains(v.str, ")")
       \/ Contains(v.str, Pipe)

RECURSIVE RowLoop(_, _, _, _, _, _, _)
\* insertTable's loop over the columns of one row, visited in the order
\* order: the columns and values collected, the lines printed, the error
RowLoop(row, order, k, columns, values, out, ess) ==
    IF k > Len(order)
    THEN [err |-> NoError, k |-> "", columns |-> columns, values |-> values, out |-> out]
    ELSE LET c == order[k]
             v == row[c]
             r == EvalParen(v.str, ess[c])
             out2 == IF NeedsEval(v) /\ dryRun
                     THEN Append(out, [line |-> "Evaluating", text |-> v.str])
                     ELSE out
         IN  IF NeedsEval(v) /\ r.err # NoError
             THEN [err |-> r.err, k |-> c, columns |-> columns, values |-> values,
                   out |-> out2]
             ELSE RowLoop(row, order, k + 1, Append(columns, c),
                          Append(values, IF NeedsEval(v) THEN r.val ELSE v), out2, ess)

\* sqlStmt: INSERT INTO table (columns) VALUES ($1, ..., $n) ON CONFLICT DO NOTHING
SqlStmt(t, columns) == [table |-> t, columns |-> columns, placeholders |-> Len(columns)]

\* panic(err): the deferred db.Close() runs
PanicMain ==
    /\ mainPc' = "panic"
    /\ db' = IF db = "open" THEN "closed" ELSE db

\* main up to the opening of the database
MainStart ==
    /\ mainPc = "start"
    /\ registerCustomFunctions
    /\ IF dsn = <<>> /\ ~dryRun
       THEN mainPc' = "exit" /\ UNCHANGED db
       ELSE IF ~dryRun
       THEN \E opened \in BOOLEAN :
               IF opened THEN mainPc' = "load" /\ db' = "open"
               ELSE mainPc' = "panic" /\ UNCHANGED db
       ELSE mainPc' = "load" /\ UNCHANGED db
    /\ UNCHANGED <<dryRun, dsn, orderStr, respectYamlOrder, file, seedData, tableOrder,
                   orderIdx, visited, table, rows, rowIdx, caller, stdout, execs>>
    /\ UNCHANGED <<evalVars, lockVars>>

\* loadYAML and the -order flag
LoadYAML ==
    /\ mainPc = "load"
    /\ IF file.err
       THEN PanicMain /\ UNCHANGED <<seedData, tableOrder, respectYamlOrder>>
       ELSE /\ mainPc' = "ordered"
            /\ seedData' = file.data
            /\ tableOrder' = IF orderStr # <<>>
                             THEN [k \in 1..Len(Split(orderStr, ",")) |->
                                      TrimSpace(Split(orderStr, ",")[k])]
                             ELSE file.order
            /\ respectYamlOrder' = IF orderStr # <<>> THEN FALSE ELSE respectYamlOrder
            /\ UNCHANGED db
    /\ UNCHANGED <<dryRun, dsn, orderStr, file, orderIdx, visited, table, rows, rowIdx,
                   caller, stdout, execs>>
    /\ UNCHANGED <<functionRegistry, lastOp, lastCall, evalVars, lockVars>>

\* len(tableOrder) > 0 && (*respectYamlOrder || *orderStr != "")
UseOrder == Len(tableOrder) > 0 /\ (respectYamlOrder \/ orderStr # <<>>)

\* the loop over tableOrder is at a table of the file: insertTable is called
OrderedTable ==
    /\ mainPc = "ordered" /\ UseOrder /\ orderIdx < Len(tableOrder)
    /\ tableOrder[orderIdx + 1] \in DOMAIN seedData
    /\ table' = tableOrder[orderIdx + 1]
    /\ rows' = seedData[tableOrder[orderIdx + 1]]
    /\ rowIdx' = 0
    /\ caller' = "ordered"
    /\ mainPc' = "insert"
    /\ stdout' = Append(stdout, [line |-> "Processing table",
                                 table |-> tableOrder[orderIdx + 1],
                                 rows |-> Len(seedData[tableOrder[orderIdx + 1]])])
    /\ UNCHANGED <<dryRun, dsn, orderStr, respectYamlOrder, file, db, seedData, tableOrder,
                   orderIdx, visited, execs>>
    /\ UNCHANGED <<functionRegistry, lastOp, lastCall, evalVars, lockVars>>

\* the loop over tableOrder is at a name the file has no table for
OrderedMissing ==
    /\ mainPc = "ordered" /\ UseOrder /\ orderIdx < Len(tableOrder)
    /\ tableOrder[orderIdx + 1] \notin DOMAIN seedData
    /\ orderIdx' = orderIdx + 1
    /\ stdout' = Append(stdout, [line |-> "Warning", table |-> tableOrder[orderIdx + 1]])
    /\ UNCHANGED <<mainPc, dryRun, dsn, orderStr, respectYamlOrder, file, db, seedData,
                   tableOrder, visited, table, rows, rowIdx, caller, execs>>
    /\ UNCHANGED <<functionRegistry, lastOp, lastCall, evalVars, lockVars>>

\* the loop over tableOrder is skipped or over
OrderedEnd ==
    /\ mainPc = "ordered"
    /\ ~UseOrder \/ orderIdx = Len(tableOrder)
    /\ mainPc' = "remaining"
    /\ visited' = {}
    /\ UNCHANGED <<dryRun, dsn, orderStr, respectYamlOrder, file, db, seedData, tableOrder,
                   orderIdx, table, rows, rowIdx, caller, stdout, execs>>
    /\ UNCHANGED <<functionRegistry, lastOp, lastCall, evalVars, lockVars>>

\* the range loop over what is left in seedData is at some table
RemainingTable ==
    /\ mainPc = "remaining"
    /\ \E t \in DOMAIN seedData \ visited :
          /\ table' = t
          /\ rows' = seedData[t]
          /\ stdout' = Append(stdout, [line |-> "Processing table", table |-> t,
                                       rows |-> Len(seedData[t])])
    /\ rowIdx' = 0
    /\ caller' = "remaining"
    /\ mainPc' = "insert"
    /\ UNCHANGED <<dryRun, dsn, orderStr, respectYamlOrder, file, db, seedData, tableOrder,
                   orderIdx, visited, execs>>
    /\ UNCHANGED <<functionRegistry, lastOp, lastCall, evalVars, lockVars>>

\* mutant of InsertRow: the statement is executed in a dry run too
InsertRowAlwaysExec ==
    /\ mainPc = "insert" /\ rowIdx < Len(rows)
    /\ \E order \in Perms(DOMAIN rows[rowIdx + 1]) :
       \E ess \in RowEnvs(rows[rowIdx + 1], DOMAIN rows[rowIdx + 1]) :
          LET r == RowLoop(rows[rowIdx + 1], order, 1, <<>>, <<>>, <<>>, ess)
          IN  IF r.err # NoError
              THEN /\ PanicMain
                   /\ stdout' = stdout \o r.out
                   /\ UNCHANGED <<rowIdx, execs>>
              ELSE /\ stdout' = stdout \o r.out
                   /\ execs' = Append(execs, [sql |-> SqlStmt(table, r.columns),
                                              values |-> r.values])
                   /\ rowIdx' = rowIdx + 1
                   /\ UNCHANGED <<mainPc, db>>
    /\ UNCHANGED <<dryRun, dsn, orderStr, respectYamlOrder, file, seedData, tableOrder,
                   orderIdx, visited, table, rows, caller>>
    /\ UNCHANGED <<functionRegistry, lastOp, lastCall, evalVars, lockVars>>

\* mutant of InsertRow: a row whose evaluation fails is left out and the
\* loop goes on
InsertRowSkipsBadRow ==
    /\ mainPc = "insert" /\ rowIdx < Len(rows)
    /\ \E order \in Perms(DOMAIN rows[rowIdx + 1]) :
       \E ess \in RowEnvs(rows[rowIdx + 1], DOMAIN rows[rowIdx + 1]) :
          LET r == RowLoop(rows[rowIdx + 1], order, 1, <<>>, <<>>, <<>>, ess)
          IN  IF r.err # NoError
              THEN /\ stdout' = stdout \o r.out
                   /\ rowIdx' = rowIdx + 1
                   /\ UNCHANGED <<mainPc, db, execs>>
              ELSE IF dryRun
              THEN /\ stdout' = stdout \o r.out
                        \o <<[line |-> "SQL", table |-> table,
                              sql |-> SqlStmt(table, r.columns), values |-> r.values]>>
                   /\ rowIdx' = rowIdx + 1
                   /\ UNCHANGED <<mainPc, db, execs>>
              ELSE /\ stdout' = stdout \o r.out
                   /\ execs' = Append(execs, [sql |-> SqlStmt(table, r.columns),
                                              values |-> r.values])
                   /\ \E failed \in BOOLEAN :
                         IF failed THEN PanicMain /\ UNCHANGED rowIdx
                         ELSE rowIdx' = rowIdx + 1 /\ UNCHANGED <<mainPc, db>>
    /\ UNCHANGED <<dryRun, dsn, orderStr, respectYamlOrder, file, seedData, tableOrder,
                   orderIdx, visited, table, rows, caller>>
    /\ UNCHANGED <<functionRegistry, lastOp, lastCall, evalVars, lockVars>>

\* one pass of insertTable's loop over the rows: the cells are evaluated,
\* then the statement is printed (dry run) or executed
InsertRow ==
    /\ mainPc = "insert" /\ rowIdx < Len(rows)
    /\ \E order \in Perms(DOMAIN rows[rowIdx + 1]) :
       \E ess \in RowEnvs(rows[rowIdx + 1], DOMAIN rows[rowIdx + 1]) :
          LET r == RowLoop(rows[rowIdx + 1], order, 1, <<>>, <<>>, <<>>, ess)
          IN  IF r.err # NoError
              THEN /\ PanicMain
                   /\ stdout' = stdout \o r.out
                   /\ UNCHANGED <<rowIdx, execs>>
              ELSE IF dryRun
              THEN /\ stdout' = stdout \o r.out
                        \o <<[line |-> "SQL", table |-> table,
                              sql |-> SqlStmt(table, r.columns), values |-> r.values]>>
                   /\ rowIdx' = rowIdx + 1
                   /\ UNCHANGED <<mainPc, db, execs>>
              ELSE /\ stdout' = stdout \o r.out
                   /\ execs' = Append(execs, [sql |-> SqlStmt(table, r.columns),
                                              values |-> r.values])
                   /\ \E failed \in BOOLEAN :
                         IF failed THEN PanicMain /\ UNCHANGED rowIdx
                         ELSE rowIdx' = rowIdx + 1 /\ UNCHANGED <<mainPc, db>>
    /\ UNCHANGED <<dryRun, dsn, orderStr, respectYamlOrder, file, seedData, tableOrder,
                   orderIdx, visited, table, rows, caller>>
    /\ UNCHANGED <<functionRegistry, lastOp, lastCall, evalVars, lockVars>>

\* mutant of InsertReturn: the table stays in seedData behind the ordered loop
InsertReturnKeepsTable ==
    /\ mainPc = "insert" /\ rowIdx = Len(rows)
    /\ mainPc' = caller
    /\ IF caller = "ordered"
       THEN /\ orderIdx' = orderIdx + 1
            /\ UNCHANGED <<seedData, visited>>
       ELSE /\ visited' = visited \cup {table}
            /\ UNCHANGED <<seedData, orderIdx>>
    /\ UNCHANGED <<dryRun, dsn, orderStr, respectYamlOrder, file, db, tableOrder,
                   table, rows, rowIdx, caller, stdout, execs>>
    /\ UNCHANGED <<functionRegistry, lastOp, lastCall, evalVars, lockVars>>

\* insertTable returns nil to the loop that called it
InsertReturn ==
    /\ mainPc = "insert" /\ rowIdx = Len(rows)
    /\ mainPc' = caller
    /\ IF caller = "ordered"
       THEN /\ seedData' = MapDelete(seedData, table)
            /\ orderIdx' = orderIdx + 1
            /\ UNCHANGED visited
       ELSE /\ visited' = visited \cup {table}
            /\ UNCHANGED <<seedData, orderIdx>>
    /\ UNCHANGED <<dryRun, dsn, orderStr, respectYamlOrder, file, db, tableOrder,
                   table, rows, rowIdx, caller, stdout, execs>>
    /\ UNCHANGED <<functionRegistry, lastOp, lastCall, evalVars, lockVars>>

\* every table has been processed: main prints the final line and returns
Finish ==
    /\ mainPc = "remaining"
    /\ DOMAIN seedData \subseteq visited
    /\ mainPc' = "done"
    /\ db' = IF db = "open" THEN "closed" ELSE db
    /\ stdout' = Append(stdout, [line |-> IF dryRun THEN "Dry run completed successfully."
                                          ELSE "Seed data loaded successfully."])
    /\ UNCHANGED <<dryRun, dsn, orderStr, respectYamlOrder, file, seedData, tableOrder,
                   orderIdx, visited, table, rows, rowIdx, caller, execs>>
    /\ UNCHANGED <<functionRegistry, lastOp, lastCall, evalVars, lockVars>>

InitLoad ==
    /\ NoCallers
    /\ functionRegistry = init2
    /\ pc = "idle"
    /\ value = <<>> /\ parts = <<>> /\ i = 0 /\ result = Nil
    /\ fn = <<>> /\ args = <<>> /\ handler = "nil"
    /\ retVal = Nil /\ retErr = NoError
    /\ invoked = <<>>
    /\ lastOp = [n \in ParenNames |->
                   IF n \in DOMAIN init2
                   THEN [op |-> "Register", handler |-> init2[n]]
                   ELSE [op |-> "none", handler |-> "nil"]]
    /\ lastCall = [op |-> "init", name |-> <<>>, handler |-> "nil", prev |-> "nil"]
    /\ mainPc = "start"
    /\ dryRun \in BOOLEAN /\ dsn \in Dsns /\ orderStr \in OrderStrs
    /\ respectYamlOrder \in BOOLEAN
    /\ file \in SeedFiles
    /\ db = "nil"
    /\ seedData = EmptyMap /\ tableOrder = <<>>
    /\ orderIdx = 0 /\ visited = {}
    /\ table = <<>> /\ rows = <<>> /\ rowIdx = 0 /\ caller = "none"
    /\ stdout = <<>> /\ execs = <<>>

NextLoad ==
    \/ MainStart
    \/ LoadYAML
    \/ OrderedTable
    \/ OrderedMissing
    \/ OrderedEnd
    \/ RemainingTable
    \/ InsertRow
    \/ InsertReturn
    \/ Finish

SpecLoad == InitLoad /\ [][NextLoad]_vars

(***************************************************************************)
(* The registry under registryMutex: a goroutine in Eval and the           *)
(* goroutines of Goroutines calling RegisterFunction, UnregisterFunction   *)
(* and GetFunction, one step per Lock, map access and Unlock. A goroutine  *)
(* that calls Lock waits for the lock to be free and keeps later readers   *)
(* out; a goroutine that calls RLock behind a writer waits until that      *)
(* writer's Unlock lets it in.                                             *)
(***************************************************************************)
reentrant == <<"r", "e", "e", "n", "t", "r", "a", "n", "t">>
\* the calls the goroutines make
ConcOps ==
    { [op |-> "RegisterFunction", name |-> double, handler |-> "double"],
      [op |-> "RegisterFunction", name |-> double, handler |-> "reentrant"],
      [op |-> "UnregisterFunction", name |-> double, handler |-> "nil"],
      [op |-> "GetFunction", name |-> double, handler |-> "nil"] }
ConcInputs ==
    { Join(<<double, <<"a">>>>, <<" ">>),
      <<"'", "a", "'", Pipe>> \o double,
      Join(<<hash, <<"a">>>>, <<" ">>) \o <<Pipe>>,
      Join(<<Join(<<double, <<"a">>>>, <<" ">>), double>>, <<Pipe>>) }

\* a writer holds the lock or has called Lock
WriterAround == writers # {} \/ \E h \in Callers : gpc[h] = "lock"
\* the position after a call has returned: the handler goes on, a caller is idle again
Returned2(g) == IF g = Eval THEN "returned" ELSE "idle"

\* g calls a registry function and with it Lock or RLock; the goroutine of
\* Eval does so from inside the handler reentrant
CallBegin(g) ==
    /\ gpc[g] = "idle"
    /\ g = Eval => pc = "call" /\ handler = "reentrant"
    /\ \E o \in ConcOps :
          /\ gop' = [gop EXCEPT ![g] = o]
          /\ IF o.op # "GetFunction"
             THEN gpc' = [gpc EXCEPT ![g] = "lock"] /\ UNCHANGED readers
             ELSE IF WriterAround
             THEN gpc' = [gpc EXCEPT ![g] = "rwait"] /\ UNCHANGED readers
             ELSE gpc' = [gpc EXCEPT ![g] = "rlocked"] /\ readers' = readers \cup {g}
    /\ UNCHANGED writers
    /\ UNCHANGED <<functionRegistry, lastOp, lastCall, evalVars, loadVars>>

\* mutant of Lock: the write lock is taken as a read lock
LockAsRLock(g) ==
    /\ gpc[g] = "lock"
    /\ writers = {}
    /\ readers' = readers \cup {g}
    /\ gpc' = [gpc EXCEPT ![g] = "locked"]
    /\ UNCHANGED <<writers, gop>>
    /\ UNCHANGED <<functionRegistry, lastOp, lastCall, evalVars, loadVars>>

\* registryMutex.Lock() returns
Lock(g) ==
    /\ gpc[g] = "lock"
    /\ writers = {} /\ readers = {}
    /\ writers' = writers \cup {g}
    /\ gpc' = [gpc EXCEPT ![g] = "locked"]
    /\ UNCHANGED <<readers, gop>>
    /\ UNCHANGED <<functionRegistry, lastOp, lastCall, evalVars, loadVars>>

\* functionRegistry[name] = handler, or delete(functionRegistry, name)
Write(g) ==
    /\ gpc[g] = "locked"
    /\ IF gop[g].op = "RegisterFunction"
       THEN RegisterFunction(gop[g].name, gop[g].handler)
       ELSE UnregisterFunction(gop[g].name)
    /\ gpc' = [gpc EXCEPT ![g] = "written"]
    /\ UNCHANGED <<readers, writers, gop>>
    /\ UNCHANGED loadVars

\* the deferred registryMutex.Unlock(): the readers that wait are let in
Unlock(g) ==
    /\ gpc[g] = "written"
    /\ writers' = writers \ {g}
    /\ readers' = readers \cup {h \in Callers : gpc[h] = "rwait"}
                          \cup (IF pc = "rwait" THEN {Eval} ELSE {})
    /\ gpc' = [h \in Callers |->
                 IF h = g THEN Returned2(g)
                 ELSE IF gpc[h] = "rwait" THEN "rlocked" ELSE gpc[h]]
    /\ gop' = [gop EXCEPT ![g] = NoCall]
    /\ pc' = IF pc = "rwait" THEN "rlocked" ELSE pc
    /\ UNCHANGED <<functionRegistry, lastOp, lastCall, loadVars>>
    /\ UNCHANGED <<value, parts, i, result, fn, args, handler, retVal, retErr, invoked>>

\* GetFunction reads the map and returns, the deferred RUnlock() runs
ReadUnlock(g) ==
    /\ gpc[g] = "rlocked"
    /\ readers' = readers \ {g}
    /\ gpc' = [gpc EXCEPT ![g] = Returned2(g)]
    /\ gop' = [gop EXCEPT ![g] = NoCall]
    /\ lastCall' = [op |-> "GetFunction", name |-> gop[g].name,
                    handler |-> GetFunction(gop[g].name).handler,
                    prev |-> GetFunction(gop[g].name).handler]
    /\ UNCHANGED writers
    /\ UNCHANGED <<functionRegistry, lastOp, evalVars, loadVars>>

\* Eval is at a call stage: it calls GetFunction, and with it RLock
EvalRLock ==
    /\ pc = "loop" /\ i < Len(parts)
    /\ ~IsLiteral(Part)
    /\ Len(Fields(Part)) # 0
    /\ fn' = Fields(Part)[1]
    /\ args' = StageArgs(Fields(Part), i, result)
    /\ IF WriterAround
       THEN pc' = "rwait" /\ UNCHANGED readers
       ELSE pc' = "rlocked" /\ readers' = readers \cup {Eval}
    /\ UNCHANGED <<writers, gpc, gop>>
    /\ UNCHANGED <<functionRegistry, value, parts, i, result, handler, retVal, retErr,
                   invoked, lastOp, lastCall, loadVars>>

\* mutant of EvalGetFunction: the read lock is kept while the handler runs
EvalGetFunctionKeepsLock ==
    /\ pc = "rlocked"
    /\ IF GetFunction(fn).exists
       THEN /\ handler' = GetFunction(fn).handler
            /\ pc' = "call"
            /\ UNCHANGED <<retVal, retErr, readers>>
       ELSE /\ Return(Nil, ErrUnsupported(fn))
            /\ readers' = readers \ {Eval}
            /\ UNCHANGED handler
    /\ UNCHANGED <<writers, gpc, gop>>
    /\ UNCHANGED <<functionRegistry, value, parts, i, result, fn, args, invoked,
                   lastOp, lastCall, loadVars>>

\* GetFunction reads the map and returns to Eval, the deferred RUnlock()
\* runs; Eval goes on to the handler call or returns the error
EvalGetFunction ==
    /\ pc = "rlocked"
    /\ readers' = readers \ {Eval}
    /\ IF GetFunction(fn).exists
       THEN /\ handler' = GetFunction(fn).handler
            /\ pc' = "call"
            /\ UNCHANGED <<retVal, retErr>>
       ELSE /\ Return(Nil, ErrUnsupported(fn))
            /\ UNCHANGED handler
    /\ UNCHANGED <<writers, gpc, gop>>
    /\ UNCHANGED <<functionRegistry, value, parts, i, result, fn, args, invoked,
                   lastOp, lastCall, loadVars>>

\* the call of a handler that calls no registry function
EvalCallPlain == handler # "reentrant" /\ EvalCall

\* the handler reentrant returns its result after its registry call
HandlerReturn ==
    /\ pc = "call" /\ handler = "reentrant"
    /\ gpc[Eval] = "returned"
    /\ gpc' = [gpc EXCEPT ![Eval] = "idle"]
    /\ result' = StringValue(reentrant)
    /\ invoked' = Append(invoked, [fn |-> fn, handler |-> handler, args |-> args])
    /\ i' = i + 1
    /\ pc' = "loop"
    /\ UNCHANGED <<readers, writers, gop>>
    /\ UNCHANGED <<functionRegistry, value, parts, fn, args, handler, retVal, retErr,
                   lastOp, lastCall, loadVars>>

EvaluateConc == (\E v \in ConcInputs : EvalStart(v)) /\ UNCHANGED extVars

InitConc ==
    /\ NoLoader /\ NoCallers
    /\ functionRegistry = init
    /\ pc = "idle"
    /\ value = <<>> /\ parts = <<>> /\ i = 0 /\ result = Nil
    /\ fn = <<>> /\ args = <<>> /\ handler = "nil"
    /\ retVal = Nil /\ retErr = NoError
    /\ invoked = <<>>
    /\ lastOp = [n \in AllNames |->
                   IF n \in DOMAIN init
                   THEN [op |-> "Register", handler |-> init[n]]
                   ELSE [op |-> "none", handler |-> "nil"]]
    /\ lastCall = [op |-> "init", name |-> <<>>, handler |-> "nil", prev |-> "nil"]

NextConc ==
    \/ \E g \in Callers : CallBegin(g)
    \/ \E g \in Callers : Lock(g)
    \/ \E g \in Callers : Write(g)
    \/ \E g \in Callers : Unlock(g)
    \/ \E g \in Callers : ReadUnlock(g)
    \/ EvaluateConc
    \/ EvalLiteral
    \/ EvalEmpty
    \/ EvalRLock
    \/ EvalGetFunction
    \/ EvalCallPlain
    \/ HandlerReturn
    \/ EvalReturn
    \/ EvalCaller

\* a goroutine that runs goes on running: a map access under the lock and
\* an unlock are weakly fair; sync.Mutex hands the lock to a goroutine that
\* has waited for it, so the return of Lock is strongly fair. The handler
\* call of Eval has no fairness: a handler may run for ever.
Fairness ==
    /\ \A g \in Callers :
          /\ SF_vars(Lock(g))
          /\ WF_vars(Write(g))
          /\ WF_vars(Unlock(g))
          /\ WF_vars(ReadUnlock(g))
    /\ WF_vars(EvalGetFunction)

SpecConc == InitConc /\ [][NextConc]_vars /\ Fairness

(***************************************************************************)
(* Pipelines over caller-supplied handlers: skip returns nil without an    *)
(* error, count returns an int, double returns a string.                   *)
(***************************************************************************)
\* the stages of the pipelines: calls, literals, a lone quote, an empty stage
PipeStageSet ==
    { hash, Join(<<hash, <<"a">>>>, <<" ">>),
      <<"'">> \o Join(<<hash, <<"a">>>>, <<" ">>) \o <<"'">>,
      <<"\"", "b", "\"">>, <<"'", "'">>, <<"'">>, <<"'", "\n", "'">>,
      skip, count, Join(<<count, <<"a">>>>, <<" ">>), double, <<>> }
\* the pipelines longer than MaxStages
LongPipes ==
    { Join(<<Join(<<hash, <<"a">>>>, <<" ">>), <<"'", "b", "'">>, hash>>, <<Pipe>>),
      Join(<<skip, <<"'", "b", "'">>, skip, count>>, <<Pipe>>) }
PipeInputs ==
    {Join(ss, <<Pipe>>) : ss \in UNION {[1..k -> PipeStageSet] : k \in 1..MaxStages}}
        \cup LongPipes

PipeNames == {skip, count, double}
\* the handler a caller registers under a name of PipeNames
PipeHandler(name) ==
    CASE name = skip -> "skip" [] name = count -> "count" [] name = double -> "double"

RegisterPipe ==
    pc = "idle" /\ \E name \in PipeNames : RegisterFunction(name, PipeHandler(name)) /\ UNCHANGED extVars
EvaluatePipe == (\E v \in PipeInputs : EvalStart(v)) /\ UNCHANGED extVars

InitPipe == Init

NextPipe ==
    \/ RegisterPipe
    \/ EvaluatePipe
    \/ EvalLiteral
    \/ EvalEmpty
    \/ EvalLookup
    \/ EvalUnsupported
    \/ EvalCall
    \/ EvalReturn
    \/ EvalCaller

SpecPipe == InitPipe /\ [][NextPipe]_vars

(***************************************************************************)
(* Properties.                                                             *)
(***************************************************************************)
NoChar(s, c) == \A k \in 1..Len(s) : s[k] # c
Inner(s) == SubSeq(s, 2, Len(s) - 1)
Delimited(s, q) == Len(s) >= 2 /\ s[1] = q /\ s[Len(s)] = q /\ NoChar(Inner(s), q)
Last(s) == s[Len(s)]
Builtin(name, h) == GetFunction(name) = [handler |-> h, exists |-> TRUE]

\* C1 as stated: for every s without the delimiter's own quote character,
\* including s with a pipe or a newline, Eval of the quoted s returns s
\* unchanged and invokes no function.
C1_RoundTripAnyContent ==
    \A q \in Quotes :
        (pc = "done" /\ Delimited(value, q))
            => (retErr = NoError /\ retVal = StringValue(Inner(value)) /\ invoked = <<>>)

\* C1 amended: for every s without the delimiter's own quote character,
\* without a pipe and without a newline, Eval of the quoted s returns s
\* unchanged (untrimmed, the other kind of quote kept) and invokes no function.
C1_RoundTrip ==
    \A q \in Quotes :
        (pc = "done" /\ Delimited(value, q)
            /\ NoChar(Inner(value), Pipe) /\ NoChar(Inner(value), "\n"))
            => (retErr = NoError /\ retVal = StringValue(Inner(value)) /\ invoked = <<>>)

C1_Witness ==
    /\ pc = "done"
    /\ value = <<"'", " ", "\"", "'">>
    /\ retVal = StringValue(<<" ", "\"">>)

\* C2: an input without a pipe whose trimmed text does not match the quote
\* pattern and that is a single word which is no key of the registry makes
\* Eval return nil and "unsupported function: <word>"; no handler is invoked.
C2_UnknownFunction ==
    (/\ pc = "done"
     /\ NoChar(value, Pipe)
     /\ quotePattern(TrimSpace(value)) = <<>>
     /\ Len(Fields(value)) = 1
     /\ ~GetFunction(Fields(value)[1]).exists)
        => /\ retVal = Nil
           /\ retErr.kind = "unsupported function"
           /\ retErr.fn = Fields(value)[1]
           /\ invoked = <<>>

C2_Witness ==
    /\ pc = "done"
    /\ value = <<" ", "a">>
    /\ retErr = ErrUnsupported(<<"a">>)

\* C3: with the built-in hash registered, Eval("hash x|hash") for a single
\* token x succeeds with hash(hash(x)), the second call receiving exactly
\* one argument, the first stage's result; a quoted literal piped into hash
\* yields the hash of the literal's content.
C3_PipeComposable ==
    (pc = "done" /\ Builtin(hash, "hash") /\ Len(parts) = 2 /\ Fields(parts[2]) = <<hash>>)
        => /\ (Len(Fields(parts[1])) = 2 /\ Fields(parts[1])[1] = hash)
                => LET x == Fields(parts[1])[2]
                   IN  /\ retErr = NoError
                       /\ retVal = StringValue(Sha256Hex(Sha256Hex(x)))
                       /\ Len(invoked) = 2
                       /\ invoked[2].handler = "hash"
                       /\ invoked[2].args = <<Sha256Hex(x)>>
           /\ IsLiteral(TrimSpace(parts[1]))
                => LET lit == Inner(TrimSpace(parts[1]))
                   IN  /\ retErr = NoError
                       /\ retVal = StringValue(Sha256Hex(lit))
                       /\ Len(invoked) = 1
                       /\ invoked[1].args = <<lit>>

C3_Witness ==
    /\ pc = "done"
    /\ value = hash \o <<" ", "'", "b", "'", "|">> \o hash
    /\ retVal = StringValue(Sha256Hex(Sha256Hex(<<"'", "b", "'">>)))

\* C4: the hash handler fails for every argument count other than 1 and the
\* now handler for every count other than 0, and Eval then returns nil with
\* the handler's error; so do Eval("hash"), Eval("hash a a"), Eval("now a")
\* and Eval("uuid a a") with the built-ins registered.
C4_BadArity(call) ==
    \/ call.handler = "hash" /\ Len(call.args) # 1
    \/ call.handler = "now" /\ Len(call.args) # 0

C4_ArityRejection ==
    /\ \A k \in 1..Len(invoked) :
          C4_BadArity(invoked[k])
              => /\ pc = "done" /\ k = Len(invoked)
                 /\ retVal = Nil
                 /\ retErr.kind = "function error"
                 /\ retErr.fn = invoked[k].fn
                 /\ retErr.cause.got = Len(invoked[k].args)
    /\ (/\ pc = "done"
        /\ Builtin(hash, "hash") /\ Builtin(now, "now") /\ Builtin(uuid, "uuid")
        /\ value \in {hash, hash \o <<" ", "a", " ", "a">>,
                      now \o <<" ", "a">>, uuid \o <<" ", "a", " ", "a">>})
          => retVal = Nil /\ retErr.kind = "function error"

C4_Witness ==
    /\ pc = "done"
    /\ value = hash \o <<" ", "a", " ", "a">>
    /\ invoked = <<[fn |-> hash, handler |-> "hash", args |-> << <<"a">>, <<"a">> >>]>>
    /\ retErr.kind = "function error"

\* C5 as stated: the uuid handler called with exactly one argument (a seed)
\* succeeds and returns a UUID.
C5_SeededUuidSucceeds ==
    (/\ pc = "done" /\ invoked # <<>>
     /\ Last(invoked).handler = "uuid"
     /\ Len(Last(invoked).args) = 1)
        => retErr = NoError /\ retVal.kind = "string"

C7_CustomLifeCycle ==
    /\ pc = "call" => lastOp[fn].op = "Register" /\ handler = lastOp[fn].handler
    /\ (pc = "done" /\ retErr.kind = "unsupported function" /\ retErr.fn \in AllNames)
          => lastOp[retErr.fn].op # "Register"
    /\ (pc = "done" /\ value = double \o <<" ", "a">>)
          => /\ lastOp[double] = [op |-> "Register", handler |-> "double"]
                  => retErr = NoError /\ retVal = StringValue(<<"a", "a">>)
             /\ lastOp[double].op # "Register"
                  => retVal = Nil /\ retErr = ErrUnsupported(double)

C7_Witness ==
    /\ pc = "done"
    /\ value = double \o <<" ", "a">>
    /\ lastOp[double].op = "Unregister"
    /\ retErr = ErrUnsupported(double)

\* C8: every name is bound to the handler of the last Register on it and to
\* nothing else; a RegisterFunction on a bound name completes, replaces the
\* binding and leaves the bindings of all other names as they were.
C8_Bindings ==
    \A n \in AllNames :
        GetFunction(n) = [handler |-> lastOp[n].handler, exists |-> lastOp[n].op = "Register"]

C8_RegisterStep ==
    lastCall'.op = "RegisterFunction"
        => /\ lastCall'.name \in DOMAIN functionRegistry'
           /\ functionRegistry'[lastCall'.name] = lastCall'.handler
           /\ \A n \in AllNames \ {lastCall'.name} :
                 /\ n \in DOMAIN functionRegistry' <=> n \in DOMAIN functionRegistry
                 /\ n \in DOMAIN functionRegistry => functionRegistry'[n] = functionRegistry[n]
           /\ pc' = "idle"

\* C8: the bindings invariant holds in every state and every Register step
\* is a last-write-wins update.
C8_LastWriteWins == []C8_Bindings /\ [][C8_RegisterStep]_vars

C8_Witness ==
    /\ lastCall.op = "RegisterFunction"
    /\ lastCall.prev \notin {"nil", lastCall.handler}
    /\ GetFunction(lastCall.name) = [handler |-> lastCall.handler, exists |-> TRUE]

\* C9: UnregisterFunction completes without error or panic, removes the
\* name, leaves the bindings of all other names as they were, and leaves
\* the whole registry unchanged when the name was absent, as in the second
\* of two UnregisterFunction calls on the same name.
C9_UnregisterStep ==
    lastCall'.op = "UnregisterFunction"
        => /\ lastCall'.name \notin DOMAIN functionRegistry'
           /\ \A n \in AllNames \ {lastCall'.name} :
                 /\ n \in DOMAIN functionRegistry' <=> n \in DOMAIN functionRegistry
                 /\ n \in DOMAIN functionRegistry => functionRegistry'[n] = functionRegistry[n]
           /\ lastCall'.name \notin DOMAIN functionRegistry
                 => functionRegistry' = functionRegistry
           /\ (lastCall.op = "UnregisterFunction" /\ lastCall.name = lastCall'.name)
                 => functionRegistry' = functionRegistry
           /\ pc' = "idle"

\* C9: every UnregisterFunction step is an idempotent removal.
C9_UnregisterIdempotent == [][C9_UnregisterStep]_vars

C9_Witness ==
    /\ lastCall = [op |-> "UnregisterFunction", name |-> hash, handler |-> "nil", prev |-> "nil"]
    /\ lastOp[hash].op = "Unregister"
    /\ ~GetFunction(hash).exists
    /\ Builtin(now, "now") /\ Builtin(uuid, "uuid")

\* C10: whenever Eval returns an error (empty stage, unknown function,
\* handler error) the value it returns is nil, also when earlier stages had
\* produced a running value.
C10_NoPartialValue ==
    (pc = "done" /\ retErr # NoError)
        => /\ retVal = Nil
           /\ retErr.kind \in {"empty function call", "unsupported function", "function error"}

C10_Witness ==
    /\ pc = "done"
    /\ retErr = ErrEmpty
    /\ i > 0
    /\ result # Nil
    /\ retVal = Nil

\* a stage text that opens with a quote and does not end with the same quote
Malformed(p) == Len(p) >= 1 /\ p[1] \in Quotes /\ p[Len(p)] # p[1]

\* C14: a trimmed stage that opens with a quote and does not end with the
\* identical quote is no literal; it is tokenized as a call whose name is
\* its first token, and with only the built-ins registered Eval returns nil
\* and an error for every expression that has such a stage.
C14_MalformedQuoting ==
    /\ \A k \in 1..Len(parts) :
          Malformed(TrimSpace(parts[k])) => ~IsLiteral(TrimSpace(parts[k]))
    /\ (pc = "call" /\ functionRegistry = init) => ~Malformed(Part)
    /\ (pc = "done" /\ functionRegistry = init)
          => /\ (\E k \in 1..Len(parts) : Malformed(TrimSpace(parts[k])))
                  => retErr # NoError /\ retVal = Nil
             /\ (i < Len(parts) /\ Malformed(Part))
                  => /\ retErr.kind = "unsupported function"
                     /\ retErr.fn = Fields(Part)[1]
                     /\ fn = Fields(Part)[1]
                     /\ fn[1] \in Quotes

C14_Witness ==
    /\ pc = "done"
    /\ functionRegistry = init
    /\ value = <<"\"", "a", "'">>
    /\ retErr = ErrUnsupported(<<"\"", "a", "'">>)

\* C15: a stage that is reached and is empty after trimming makes Eval
\* return nil and "empty function call", whatever the stages before it
\* produced; Eval(""), Eval("|") and Eval("'a'|") fail this way, and no
\* Eval succeeds or calls a handler on an empty stage.
C15_EmptyStage ==
    /\ (pc = "done" /\ i < Len(parts) /\ Part = <<>>)
          => retVal = Nil /\ retErr.kind = "empty function call" /\ retErr.fn = <<>>
    /\ (pc = "done" /\ retErr.kind = "empty function call")
          => i < Len(parts) /\ Part = <<>>
    /\ pc = "call" => Part # <<>>
    /\ (pc = "done" /\ retErr = NoError)
          => \A k \in 1..Len(parts) : TrimSpace(parts[k]) # <<>>
    /\ (pc = "done" /\ value \in {<<>>, <<"|">>, <<"'", "a", "'", "|">>})
          => retVal = Nil /\ retErr.kind = "empty function call"

C15_Witness ==
    /\ pc = "done"
    /\ value = <<"'", "a", "'", "|">>
    /\ result = StringValue(<<"a">>)
    /\ retVal = Nil
    /\ retErr.kind = "empty function call"

\* the call stages (the stages that are no literals) among the first n stages
CallStagesUpTo(ps, n) == SelectSeq(SubSeq(ps, 1, n), LAMBDA p : ~IsLiteral(TrimSpace(p)))
\* the number of stages whose handler has been called
StagesCalled ==
    IF pc = "panic" \/ (pc = "done" /\ retErr.kind = "function error") THEN i + 1 ELSE i

\* C20: the handlers called so far are exactly those of the call stages
\* before the stage Eval is at, in stage order; an Eval that returned an
\* error stopped at the failing stage, so no later stage was looked up or
\* invoked, and an Eval that returned no error went through all stages.
C20_ShortCircuit ==
    /\ Len(invoked) = Len(CallStagesUpTo(parts, StagesCalled))
    /\ \A k \in 1..Len(invoked) :
          invoked[k].fn = Fields(CallStagesUpTo(parts, StagesCalled)[k])[1]
    /\ (pc = "done" /\ retErr # NoError) => i < Len(parts)
    /\ (pc = "done" /\ retErr = NoError) => i = Len(parts)
    /\ (pc = "done" /\ retErr.kind \in {"unsupported function", "function error"})
          => retErr.fn = Fields(Part)[1]

C20_Witness ==
    /\ pc = "done"
    /\ value = hash \o <<"|">> \o hash \o <<" ", "a">>
    /\ retErr.kind = "function error"
    /\ i = 0
    /\ Len(invoked) = 1
    /\ GetFunction(hash).exists

\* C11: before any call of RegisterFunction or UnregisterFunction the
\* registry of the parenthesized grammar binds hash, bcrypt, now and uuid
\* to their built-in handlers, so GetFunction succeeds for each of them.
C11_BuiltinsAtStartup ==
    lastCall.op = "init"
        => /\ \A n \in {hash, bcrypt, now, uuid} : GetFunction(n).exists
           /\ Builtin(hash, "hash") /\ Builtin(bcrypt, "bcrypt")
           /\ Builtin(now, "now") /\ Builtin(uuid, "uuid")

C11_Witness ==
    /\ lastCall.op = "init"
    /\ pc = "done"
    /\ value = CallForm(bcrypt, <<"a">>)
    /\ retErr = NoError
    /\ invoked = <<[fn |-> bcrypt, handler |-> "bcrypt", args |-> << <<"a">> >>]>>

\* the last stage of the expression is a call stage
LastStageIsCall == functionCallPattern(TrimSpace(Last(parts))) # <<>>
\* Eval has returned what the bcrypt handler, called last, returned
BcryptReturned ==
    /\ pc = "done"
    /\ invoked # <<>>
    /\ Last(invoked).handler = "bcrypt"
    /\ \/ retErr.kind = "function error"
       \/ retErr = NoError /\ LastStageIsCall

\* C16: the bcrypt handler fails for an argument count other than 1 or 2,
\* and with two arguments when the second is no integer or is a cost
\* outside [MinCost, MaxCost]; with one argument the hash is made with the
\* default cost 10; a failing call yields nil, never a hash.
C16_BcryptValidation ==
    BcryptReturned =>
        LET a == Last(invoked).args
            failed == retErr.kind = "function error"
        IN  /\ failed => retVal = Nil /\ retErr.fn = bcrypt
            /\ Len(a) \notin {1, 2} => failed
            /\ (Len(a) = 2 /\ ~Atoi(a[2]).ok) => failed
            /\ (Len(a) = 2 /\ Atoi(a[2]).ok
                  /\ (Atoi(a[2]).n < MinCost \/ Atoi(a[2]).n > MaxCost)) => failed
            /\ (Len(a) = 2 /\ a[2] \in {<<"3">>, <<"3", "2">>, <<"-", "4">>, <<"x">>,
                                          <<"4", "x">>, <<>>, <<"-">>, <<"a">>}) => failed
            /\ (~failed /\ Len(a) = 1)
                  => /\ \E salt \in Salts :
                          retVal = StringValue(GenerateFromPassword(a[1], DefaultCost, salt))
                     /\ SubSeq(retVal.str, 5, 6) = <<"1", "0">>
            /\ (~failed /\ Len(a) = 2)
                  => \E salt \in Salts :
                        retVal = StringValue(GenerateFromPassword(a[1], Atoi(a[2]).n, salt))

C16_Witness ==
    /\ pc = "done"
    /\ value = CallForm(bcrypt, <<"a", ",", "3", "2">>)
    /\ Last(invoked).args = << <<"a">>, <<"3", "2">> >>
    /\ retVal = Nil
    /\ retErr.kind = "function error"
    /\ retErr.cause.msg = "bcrypt cost must be between"

\* Eval has returned what the evaluation r returns
Returned(r) == retVal = r.val /\ retErr = r.err
\* name is bound to the handler of the same name
Handles(name) ==
    \/ name = hash /\ Builtin(hash, "hash")
    \/ name = upper /\ Builtin(upper, "upper")
NoCommaPipeQuote(s) ==
    NoChar(s, ",") /\ NoChar(s, Pipe) /\ NoChar(s, "'") /\ NoChar(s, "\"")

\* C18 as stated: for every registered one-argument function f and every v
\* without comma, pipe and quote, the empty v included, Eval(v|f()) returns
\* what Eval(f(v)) returns
C18_PipeEqualsCallAnyValue ==
    pc = "done" =>
        \A v \in ParenBodies, f \in OneArgFns :
            (value = PipeForm(v, f) /\ NoCommaPipeQuote(v) /\ Handles(f))
                => \A es \in EvalEnvs(CallForm(f, v)) : Returned(EvalParen(CallForm(f, v), es))

\* C18: for every registered one-argument function f and every non-empty v
\* that has no comma, pipe, quote or newline and is not itself a call
\* name(...), Eval(v|f()) succeeds and returns what Eval(f(v)) returns;
\* Eval("a|upper()") is "A".
C18_PipeEqualsCall ==
    pc = "done" =>
        /\ \A v \in ParenBodies, f \in OneArgFns :
              (/\ value = PipeForm(v, f) /\ NoCommaPipeQuote(v) /\ Handles(f)
               /\ v # <<>> /\ NoChar(v, "\n")
               /\ functionCallPattern(TrimSpace(v)) = <<>>)
                  => /\ retErr = NoError /\ retVal # Nil
                     /\ \A es \in EvalEnvs(CallForm(f, v)) :
                           Returned(EvalParen(CallForm(f, v), es))
        /\ (value = PipeForm(<<"a">>, upper) /\ Handles(upper))
              => retVal = StringValue(<<"A">>)

C18_Witness ==
    /\ pc = "done"
    /\ value = PipeForm(<<"a">>, upper)
    /\ Handles(upper)
    /\ retVal = StringValue(<<"A">>)
    /\ invoked = <<[fn |-> upper, handler |-> "upper", args |-> << <<"a">> >>]>>
    /\ \A es \in EvalEnvs(CallForm(upper, <<"a">>)) :
          Returned(EvalParen(CallForm(upper, <<"a">>), es))

\* a between two quote characters q
Quoted(a, q) == <<q>> \o a \o <<q>>

\* C19 as stated: for every argument text a without quotes and commas, the
\* empty and the padded a included, hash(a), hash('a') and hash("a")
\* evaluate to the same result
C19_QuotesStrippedAnyArgument ==
    pc = "done" =>
        \A a \in ParenBodies, q \in Quotes :
            (value = CallForm(hash, a) /\ NoChar(a, ",") /\ NoChar(a, "'") /\ NoChar(a, "\""))
                => \A es \in EvalEnvs(CallForm(hash, Quoted(a, q))) :
                      Returned(EvalParen(CallForm(hash, Quoted(a, q)), es))

\* C19: for every non-empty argument text a that has no quote, comma, pipe
\* or newline and no leading or trailing whitespace, hash(a), hash('a')
\* and hash("a") all succeed with the same result, the hash of a.
C19_QuotesStripped ==
    pc = "done" =>
        \A a \in ParenBodies :
            (/\ NoCommaPipeQuote(a) /\ NoChar(a, "\n")
             /\ a # <<>> /\ TrimSpace(a) = a
             /\ value \in {CallForm(hash, a), CallForm(hash, Quoted(a, "'")),
                           CallForm(hash, Quoted(a, "\""))})
                => /\ retErr = NoError
                   /\ retVal = StringValue(Sha256Hex(a))
                   /\ \A t \in {a, Quoted(a, "'"), Quoted(a, "\"")} :
                         \A es \in EvalEnvs(CallForm(hash, t)) :
                            Returned(EvalParen(CallForm(hash, t), es))

C19_Witness ==
    /\ pc = "done"
    /\ value = CallForm(hash, Quoted(<<"a">>, "'"))
    /\ retErr = NoError
    /\ retVal = StringValue(Sha256Hex(<<"a">>))
    /\ invoked = <<[fn |-> hash, handler |-> "hash", args |-> << <<"a">> >>]>>

\* the printed statements, and those of table t
SqlLines == SelectSeq(stdout, LAMBDA l : l.line = "SQL")
LinesOf(t) == SelectSeq(stdout, LAMBDA l : l.line = "SQL" /\ l.table = t)

\* C17: in a dry run no database handle is opened and db.Exec is never
\* called; every row insertTable gets through is printed instead, with its
\* statement and its values, so a dry run that completes has printed every
\* row of every table of the file.
C17_DryRunExecutesNothing ==
    dryRun =>
        /\ db = "nil"
        /\ execs = <<>>
        /\ mainPc = "insert" => Len(LinesOf(table)) = rowIdx
        /\ mainPc = "done" =>
              \A t \in DOMAIN file.data :
                  /\ Len(LinesOf(t)) = Len(file.data[t])
                  /\ \A k \in 1..Len(file.data[t]) :
                        LET l == LinesOf(t)[k]
                            row == file.data[t][k]
                        IN  /\ l.sql.table = t
                            /\ Elems(l.sql.columns) = DOMAIN row
                            /\ Len(l.sql.columns) = Cardinality(DOMAIN row)
                            /\ Len(l.values) = Len(l.sql.columns)
                            /\ \A j \in 1..Len(l.values) :
                                  ~NeedsEval(row[l.sql.columns[j]])
                                      => l.values[j] = row[l.sql.columns[j]]

C17_Witness ==
    /\ dryRun
    /\ mainPc = "done"
    /\ dsn = <<>>
    /\ db = "nil"
    /\ execs = <<>>
    /\ Len(SqlLines) = 2
    /\ SqlLines[2].values = <<StringValue(<<"A">>)>>

\* the goroutine of Eval holds registryMutex
EvalHoldsLock == Eval \in readers \/ Eval \in writers
\* no goroutine is inside a registry call
Settled(g) == gpc[g] \in {"idle", "returned"}
C12_NoLockHeld ==
    /\ (pc = "call" /\ Settled(Eval)) => ~EvalHoldsLock
    /\ (pc = "call" /\ gpc[Eval] = "lock") => ~EvalHoldsLock
    /\ pc \in {"idle", "loop", "rwait", "done", "panic"} => ~EvalHoldsLock
    /\ Eval \in readers => pc = "rlocked" \/ gpc[Eval] = "rlocked"
    /\ Eval \in writers => pc = "call" /\ gpc[Eval] \in {"locked", "written"}

\* C12: Eval holds the read lock only inside GetFunction and has released
\* it when the handler is called, so no lock is held while a handler runs;
\* every RegisterFunction, UnregisterFunction and GetFunction call of
\* another goroutine completes even if a handler never returns, and so
\* does a registry call made by the handler itself.
C12_NoLockWhileHandlerRuns ==
    /\ []C12_NoLockHeld
    /\ \A g \in Callers : (~Settled(g)) ~> Settled(g)

C12_Witness ==
    /\ pc = "call"
    /\ handler = "reentrant"
    /\ gpc[Eval] = "returned"
    /\ lastCall.op = "UnregisterFunction"
    /\ ~GetFunction(double).exists
    /\ ~EvalHoldsLock
    /\ gpc["g1"] = "locked"

\* the goroutines inside the critical section of a writer, of a reader
Writing == {g \in Callers : gpc[g] \in {"locked", "written"}}
Reading == {g \in Callers : gpc[g] = "rlocked"} \cup (IF pc = "rlocked" THEN {Eval} ELSE {})
C13_Exclusion ==
    /\ Cardinality(Writing) <= 1
    /\ Writing # {} => Reading = {}
    /\ Writing = writers
    /\ Reading = readers
\* the map changes only in a step of the goroutine that holds the write lock
C13_WriteStep ==
    functionRegistry' # functionRegistry
        => \E g \in writers : gpc[g] = "locked" /\ gpc'[g] = "written"

\* C13: a writer is never inside its critical section together with
\* another writer or with a reader, while readers may be inside together;
\* a goroutine is inside only with the lock held, the write lock for a
\* write of the map and the read lock for a read.
C13_LockDiscipline == []C13_Exclusion /\ [][C13_WriteStep]_vars

C13_Witness ==
    /\ Cardinality(Reading) >= 2
    /\ Eval \in Reading
    /\ Writing = {}

(***************************************************************************)
(* The stages of a pipeline.                                               *)
(***************************************************************************)
\* the loop of Eval is at a stage it has not classified yet
AtStage == pc = "loop" /\ i < Len(parts)
\* s starts and ends with the same quote character and has two characters at least
SameQuoted(s) == Len(s) >= 2 /\ s[1] \in Quotes /\ s[Len(s)] = s[1]
\* the step of a literal stage: its content becomes the running value, the
\* loop goes on, nothing is looked up and nothing is invoked
LiteralStep ==
    /\ pc' = "loop" /\ i' = i + 1
    /\ result' = StringValue(Inner(Part))
    /\ invoked' = invoked
    /\ UNCHANGED <<fn, args, handler, retVal, retErr>>
QuotedCall == <<"'">> \o hash \o <<" ", "a", "'">>

\* C21 as stated: every stage that starts and ends with the same quote
\* character and has length at least 2, a stage with a newline between the
\* quotes included, is taken as a literal: no lookup, no handler call.
C21_AnySameQuotedStage == [][(AtStage /\ SameQuoted(Part)) => LiteralStep]_vars

\* C21: a stage without a newline that starts and ends with the same quote
\* character and has length at least 2 is taken as a literal before any call
\* parsing: its content becomes the running value, no name is looked up and
\* no handler is called, even when the content is a call of the registered
\* hash (Eval("'hash a'") returns "hash a"); a stage that is one quote
\* character alone is not a literal, its name is looked up.
C21_LiteralPrecedence ==
    /\ [][(AtStage /\ SameQuoted(Part) /\ NoChar(Part, "\n")) => LiteralStep]_vars
    /\ [][(AtStage /\ Part \in {<<"'">>, <<"\"">>})
            => \/ pc' = "call" /\ fn' = Part
               \/ pc' = "done" /\ retErr' = ErrUnsupported(Part)]_vars
    /\ []((pc = "done" /\ value = QuotedCall)
            => (retVal = StringValue(Join(<<hash, <<"a">>>>, <<" ">>))
                /\ retErr = NoError /\ invoked = <<>>))

C21_Witness ==
    /\ pc = "done"
    /\ value = Join(<<Join(<<hash, <<"a">>>>, <<" ">>), QuotedCall>>, <<Pipe>>)
    /\ Len(invoked) = 1
    /\ retVal = StringValue(Join(<<hash, <<"a">>>>, <<" ">>))
    /\ retErr = NoError

\* the explicit arguments of the stage the loop is at
Explicit == Tail(Fields(Part))
CountA == Join(<<count, <<"a">>>>, <<" ">>)

\* C22: the handler of a call stage behind a stage that left a running
\* value gets the stage's whitespace-separated tokens, in order, and after
\* them exactly one more argument, the running value as a string: itself
\* when it is a string, its default formatting when it is not (the int 1
\* becomes "1"); the handler of stage 0 gets the explicit tokens only.
C22_ImplicitArgument ==
    /\ pc = "call"
        => /\ i = 0 => args = Explicit
           /\ (i > 0 /\ result.kind = "string") => args = Append(Explicit, result.str)
           /\ (i > 0 /\ result.kind = "int") => args = Append(Explicit, IntToStr(result.n))
    /\ (pc = "done" /\ value = Join(<<CountA, CountA>>, <<Pipe>>) /\ Len(invoked) = 2)
        => /\ invoked[1].args = << <<"a">> >>
           /\ invoked[2].args = << <<"a">>, <<"1">> >>

C22_Witness ==
    /\ pc = "done"
    /\ value = Join(<<CountA, CountA>>, <<Pipe>>)
    /\ Len(invoked) = 2
    /\ invoked[2].args = << <<"a">>, <<"1">> >>
    /\ retVal = IntValue(2)

\* what the handler called last returned, for some clock and some generator
LastReturns ==
    {CallHandler(Last(invoked).handler, Last(invoked).args, t, u) : t \in Times, u \in Uuids}
\* the stage before the one the loop is at was a call
AfterCall == pc = "loop" /\ i > 0 /\ ~IsLiteral(TrimSpace(parts[i]))

\* C23: when a handler returns an error e, Eval returns nil and an error
\* that wraps e and carries the name of the stage's function; when it
\* succeeds, what it returned is the running value of the next stage; Eval
\* returns what the last stage left, as it is: the int of count stays an
\* int, it is not turned into a string.
C23_Propagation ==
    /\ (pc = "done" /\ retErr.kind = "function error")
        => /\ invoked # <<>>
           /\ retVal = Nil
           /\ retErr.fn = Last(invoked).fn
           /\ \E r \in LastReturns : r.err # NoCause /\ retErr.cause = r.err
    /\ AfterCall
        => /\ invoked # <<>>
           /\ \E r \in LastReturns : r.err = NoCause /\ result = r.val
    /\ (pc = "done" /\ retErr = NoError) => retVal = result
    /\ (pc = "done" /\ retErr = NoError /\ value = CountA) => retVal = IntValue(1)

C23_Witness ==
    /\ pc = "done"
    /\ value = Join(<<hash, CountA>>, <<Pipe>>)
    /\ retErr = ErrFunction(hash, [msg |-> "hash function requires exactly one argument", got |-> 0])
    /\ Len(invoked) = 1

HashA == Join(<<hash, <<"a">>>>, <<" ">>)
LitB == <<"'", "b", "'">>

\* C27: a literal stage behind other stages replaces the running value:
\* after it the running value is the literal's content, whatever the stages
\* before it left; Eval("hash a|'b'") returns "b", Eval("hash a|'b'|hash")
\* returns the digest of "b", and the hash of the first stage has been
\* called all the same.
C27_LiteralOverwrites ==
    /\ (pc = "loop" /\ i > 0 /\ IsLiteral(TrimSpace(parts[i])))
        => result = StringValue(Inner(TrimSpace(parts[i])))
    /\ (pc = "done" /\ value = Join(<<HashA, LitB>>, <<Pipe>>))
        => /\ retVal = StringValue(<<"b">>) /\ retErr = NoError
           /\ Len(invoked) = 1 /\ invoked[1].args = << <<"a">> >>
    /\ (pc = "done" /\ value = Join(<<HashA, LitB, hash>>, <<Pipe>>) /\ Builtin(hash, "hash"))
        => /\ retVal = StringValue(Sha256Hex(<<"b">>)) /\ retErr = NoError
           /\ Len(invoked) = 2
           /\ invoked[1].args = << <<"a">> >>
           /\ invoked[2].args = << <<"b">> >>

C27_Witness ==
    /\ pc = "done"
    /\ value = Join(<<HashA, LitB, hash>>, <<Pipe>>)
    /\ retVal = StringValue(Sha256Hex(<<"b">>))
    /\ Len(invoked) = 2

\* C28: the running value is passed on exactly when it is not nil: the
\* empty literal leaves the empty string, which is a value, so "''|hash"
\* calls hash with the one argument ""; a handler that returns nil and no
\* error leaves no value, so the call stage behind it gets its explicit
\* arguments only, and when it is the last stage Eval returns nil and no
\* error.
C28_NilRunningValue ==
    /\ pc = "call"
        => Len(args) = Len(Explicit) + (IF i > 0 /\ result # Nil THEN 1 ELSE 0)
    /\ (AfterCall /\ Last(invoked).handler = "skip") => result = Nil
    /\ (pc = "call" /\ i > 0 /\ IsLiteral(TrimSpace(parts[i])))
        => Last(args) = Inner(TrimSpace(parts[i]))
    /\ (pc = "done" /\ value = Join(<<<<"'", "'">>, hash>>, <<Pipe>>) /\ Builtin(hash, "hash"))
        => /\ invoked = <<[fn |-> hash, handler |-> "hash", args |-> << <<>> >>]>>
           /\ retVal = StringValue(Sha256Hex(<<>>)) /\ retErr = NoError
    /\ (pc = "done" /\ value = Join(<<skip, CountA>>, <<Pipe>>) /\ Len(invoked) = 2)
        => invoked[2].args = << <<"a">> >> /\ retVal = IntValue(1)
    /\ (pc = "done" /\ invoked # <<>> /\ Last(invoked).handler = "skip"
            /\ ~IsLiteral(TrimSpace(Last(parts))) /\ retErr = NoError)
        => retVal = Nil

C28_Witness ==
    /\ pc = "done"
    /\ value = Join(<<<<"'", "'">>, skip>>, <<Pipe>>)
    /\ invoked = <<[fn |-> skip, handler |-> "skip", args |-> << <<>> >>]>>
    /\ retVal = Nil /\ retErr = NoError

(***************************************************************************)
(* The loader's rows.                                                      *)
(***************************************************************************)
\* the rows bound so far, printed ones in a dry run and executed ones otherwise
Bound == IF dryRun THEN [k \in 1..Len(SqlLines) |->
                            [sql |-> SqlLines[k].sql, values |-> SqlLines[k].values]]
         ELSE execs
BoundOf(t) == SelectSeq(Bound, LAMBDA b : b.sql.table = t)
\* the texts Eval was announced with in a dry run
Evaluated == SelectSeq(stdout, LAMBDA l : l.line = "Evaluating")
\* the cells of the file: table, row number, column
Cells ==
    UNION {UNION {{<<t, k, c>> : c \in DOMAIN file.data[t][k]} : k \in 1..Len(file.data[t])} :
              t \in DOMAIN file.data}
CellAt(x) == file.data[x[1]][x[2]][x[3]]
\* the text has a pipe, or both parentheses
HasCallOrPipe(s) ==
    \/ (\E k \in 1..Len(s) : s[k] = "(") /\ (\E k \in 1..Len(s) : s[k] = ")")
    \/ \E k \in 1..Len(s) : s[k] = Pipe
\* what Eval may return for the text s without an error
EvalResults(s) ==
    {EvalParen(s, es).val : es \in {e \in EvalEnvs(s) : EvalParen(s, e).err = NoError}}
\* the value bound for the column at place j of the bound row b
BoundRowOk(b, row, evaluated(_)) ==
    /\ Elems(b.sql.columns) = DOMAIN row
    /\ Len(b.values) = Len(b.sql.columns)
    /\ \A j \in 1..Len(b.values) :
          LET cell == row[b.sql.columns[j]]
          IN  IF evaluated(cell)
              THEN b.values[j] \in EvalResults(cell.str)
              ELSE b.values[j] = cell

\* C24 as stated: every string cell of every row is handed to Eval, once,
\* and what Eval returns is bound in its place.
C24_EvalForEveryStringCell ==
    /\ \A t \in DOMAIN file.data : \A k \in 1..Len(BoundOf(t)) :
          BoundRowOk(BoundOf(t)[k], file.data[t][k], LAMBDA cell : cell.kind = "string")
    /\ (dryRun /\ mainPc = "done")
          => Len(Evaluated) = Cardinality({x \in Cells : CellAt(x).kind = "string"})

\* C24: insertTable hands a string cell to Eval, once, exactly when its
\* text has a pipe or both an opening and a closing parenthesis, and binds
\* what Eval returns in its place; every other cell, a string without
\* these characters included, is bound as the file gives it.
C24_EvalPerCell ==
    /\ \A t \in DOMAIN file.data : \A k \in 1..Len(BoundOf(t)) :
          BoundRowOk(BoundOf(t)[k], file.data[t][k],
                     LAMBDA cell : cell.kind = "string" /\ HasCallOrPipe(cell.str))
    /\ (dryRun /\ mainPc = "done")
          => /\ Len(Evaluated) = Cardinality({x \in Cells :
                    CellAt(x).kind = "string" /\ HasCallOrPipe(CellAt(x).str)})
             /\ \A x \in Cells :
                   (CellAt(x).kind = "string" /\ HasCallOrPipe(CellAt(x).str))
                       => Cardinality({n \in 1..Len(Evaluated) : Evaluated[n].text = CellAt(x).str})
                            = Cardinality({y \in Cells : CellAt(y) = CellAt(x)})

C24_Witness ==
    /\ ~dryRun
    /\ mainPc = "done"
    /\ file.data = MapSet(EmptyMap, users,
                          <<[name |-> StringValue(PipeForm(<<"a">>, upper))],
                            [name |-> StringValue(<<" ", "a">>)]>>)
    /\ Len(execs) = 2
    /\ execs[1].values = <<StringValue(<<"A">>)>>
    /\ execs[2].values = <<StringValue(<<" ", "a">>)>>

\* Eval fails for the cell, whatever the clock and the generators give
FailingCell(cell) ==
    cell.kind = "string" /\ HasCallOrPipe(cell.str) /\ EvalResults(cell.str) = {}
\* insertTable is at a row with a cell whose evaluation fails
AtFailingRow ==
    /\ mainPc = "insert" /\ rowIdx < Len(rows)
    /\ \E c \in DOMAIN rows[rowIdx + 1] : FailingCell(rows[rowIdx + 1][c])
\* the step at such a row: main panics, the row is neither executed nor printed
C25_FailStep ==
    AtFailingRow
        => /\ mainPc' = "panic"
           /\ execs' = execs /\ SqlLines' = SqlLines
           /\ rowIdx' = rowIdx /\ table' = table
\* after the panic nothing happens any more
C25_PanicIsFinal == mainPc # "panic"
\* what has been executed stays executed
C25_NoRollback == Len(execs') >= Len(execs) /\ SubSeq(execs', 1, Len(execs)) = execs

\* C25: an error of Eval for a cell ends the load: insertTable returns at
\* once, the row is not inserted, no later row and no later table is
\* processed, main panics; the rows inserted before stay inserted.
C25_EvalErrorIsFatal ==
    /\ [][C25_FailStep]_vars
    /\ [][C25_PanicIsFinal]_vars
    /\ [][C25_NoRollback]_vars

C25_Witness ==
    /\ ~dryRun
    /\ mainPc = "panic"
    /\ rows = <<[name |-> StringValue(PipeForm(<<"a">>, upper))],
                [name |-> StringValue(CallForm(<<"x">>, <<>>))]>>
    /\ rowIdx = 1
    /\ Len(execs) = 1
    /\ execs[1].values = <<StringValue(<<"A">>)>>

\* s is a call name(args): word characters, an opening parenthesis, a text
\* without a newline, a closing parenthesis at the end
IsCall(s) ==
    \E p \in 2..(Len(s) - 1) :
        /\ \A k \in 1..(p - 1) : s[k] \in WordChars
        /\ s[p] = "(" /\ s[Len(s)] = ")"
        /\ \A k \in (p + 1)..(Len(s) - 1) : s[k] # "\n"
\* the name of the call s
CallName(s) == SubSeq(s, 1, Min({k \in 1..Len(s) : s[k] = "("}) - 1)
UnclosedCall == hash \o <<"(", "a">>

\* C26 as stated: a value that is no call name(args) in full is returned
\* unchanged and without an error, no function is invoked.
C26_NonCallUnchanged ==
    (pc = "done" /\ ~IsCall(value))
        => (retErr = NoError /\ retVal = StringValue(value) /\ invoked = <<>>)

\* C26: a value without a pipe that, with the whitespace around it removed,
\* is no call name(args) in full, plain text and the unclosed "hash(a"
\* included, is not an error: Eval returns it without that whitespace, so
\* unchanged when it has none, and invokes no function; such a value that
\* is a call of a name that is not registered gives the error "unsupported
\* function" with that name.
C26_NonCallIsLiteral ==
    /\ (pc = "done" /\ NoChar(value, Pipe) /\ ~IsCall(TrimSpace(value)))
        => (retErr = NoError /\ retVal = StringValue(TrimSpace(value)) /\ invoked = <<>>)
    /\ (pc = "done" /\ NoChar(value, Pipe) /\ IsCall(TrimSpace(value))
            /\ ~GetFunction(CallName(TrimSpace(value))).exists)
        => (retVal = Nil /\ retErr = ErrUnsupported(CallName(TrimSpace(value)))
            /\ invoked = <<>>)
    /\ (pc = "done" /\ value = UnclosedCall)
        => (retErr = NoError /\ retVal = StringValue(UnclosedCall) /\ invoked = <<>>)

C26_Witness ==
    /\ pc = "done"
    /\ value = <<" ">> \o UnclosedCall
    /\ Builtin(hash, "hash")
    /\ retVal = StringValue(UnclosedCall)
    /\ retErr = NoError

(***************************************************************************)
(* Eval and the registry calls of other goroutines.                        *)
(***************************************************************************)
DoubleTwice == Join(<<Join(<<double, <<"a">>>>, <<" ">>), double>>, <<Pipe>>)
\* the lookup of a stage returns the binding the map has at that moment
C29_OwnLookup ==
    /\ (pc' = "call" /\ pc # "call") => pc = "rlocked"
    /\ (pc = "rlocked" /\ pc' # "rlocked")
        => IF fn \in DOMAIN functionRegistry
           THEN pc' = "call" /\ handler' = functionRegistry[fn]
           ELSE pc' = "done" /\ retErr' = ErrUnsupported(fn) /\ invoked' = invoked
\* the handler the lookup returned is the one called, whatever the map
\* holds by then
C29_StillInvoked ==
    (pc = "call" /\ pc' # "call")
        => invoked' = Append(invoked, [fn |-> fn, handler |-> handler, args |-> args])

\* C29: Eval is not atomic with respect to the registry: every call stage
\* does its own lookup and gets the binding the map has at that moment, so
\* a Register or Unregister of another goroutine between two stages is seen
\* by the later stage; the handler a lookup has returned is called even
\* when its name has been unregistered or bound anew before the call.
C29_NotAtomic == [][C29_OwnLookup]_vars /\ [][C29_StillInvoked]_vars

C29_Witness ==
    /\ pc = "call"
    /\ value = DoubleTwice
    /\ i = 1
    /\ invoked = <<[fn |-> double, handler |-> "double", args |-> << <<"a">> >>]>>
    /\ handler = "reentrant"
    /\ ~GetFunction(double).exists

(***************************************************************************)
(* The order of the tables.                                                *)
(***************************************************************************)
\* the tables handed to insertTable so far, in the order of the calls
Processed ==
    LET ls == SelectSeq(stdout, LAMBDA l : l.line = "Processing table")
    IN  [k \in 1..Len(ls) |-> ls[k].table]
Warnings == SelectSeq(stdout, LAMBDA l : l.line = "Warning")
\* the names of -order, trimmed
OrderFlag == [k \in 1..Len(Split(orderStr, ",")) |-> TrimSpace(Split(orderStr, ",")[k])]
\* the order list in force: -order when given, else the order of the YAML
\* file unless -respect-yaml-order=false
Effective ==
    IF orderStr # <<>> THEN OrderFlag
    ELSE IF respectYamlOrder THEN file.order
    ELSE <<>>
\* the places of the list that name a table of the file for the first time
FirstPlaces(list) ==
    {k \in 1..Len(list) :
        list[k] \in DOMAIN file.data /\ \A j \in 1..(k - 1) : list[j] # list[k]}
RECURSIVE Pick(_, _, _)
\* the elements of list at the places of K, in list order, from place k on
Pick(list, K, k) ==
    IF k > Len(list) THEN <<>>
    ELSE IF k \in K THEN <<list[k]>> \o Pick(list, K, k + 1)
    ELSE Pick(list, K, k + 1)
Listed == Pick(Effective, FirstPlaces(Effective), 1)

\* C30: whatever -order and -respect-yaml-order are, no table is handed to
\* insertTable twice, and a load that no insert has failed in has handed
\* over every table of the file once: first the tables the order list in
\* force names, in the order of the list, then the others; a name the list
\* repeats, or one the file has no table for, gives a warning and nothing
\* else; -order replaces the order of the YAML file.
C30_EachTableOnce ==
    /\ \A j, k \in 1..Len(Processed) : Processed[j] = Processed[k] => j = k
    /\ mainPc = "done"
        => /\ Elems(Processed) = DOMAIN file.data
           /\ Len(Processed) = Cardinality(DOMAIN file.data)
           /\ SubSeq(Processed, 1, Len(Listed)) = Listed
           /\ Len(Warnings) = Len(Effective) - Len(Listed)
           /\ \A k \in 1..Len(Effective) :
                 k \notin FirstPlaces(Effective)
                     => \E w \in 1..Len(Warnings) : Warnings[w].table = Effective[k]

C30_Witness ==
    /\ mainPc = "done"
    /\ orderStr = <<"p", ",", " ", "u">>
    /\ file.order = <<users, posts>>
    /\ Processed = <<posts, users>>
    /\ Warnings = <<>>

====
